---- MODULE Spec2Model ----
(***************************************************************************)
(* ZeroSend: transfer session lifecycle, wrapped-key cache (Redis) and     *)
(* TOTP lockout protocol.                                                  *)
(*                                                                         *)
(* Requests are async handlers; every await on the durable store (Prisma)  *)
(* or on Redis is one atomic step of a request, and requests interleave    *)
(* at those points.  A session id and its urlToken are both unique keys of *)
(* the same row, so one index s names both.                                *)
(***************************************************************************)
EXTENDS Integers, FiniteSets, Sequences, TLC

\* ---------------------------------------------------------------- bounds
NumSessions == 2          \* session rows that initiate() may create
NumProcs    == 2          \* requests in flight at the same time
NumTokens   == 1          \* auth tokens verifyTotp() may mint in one run
MaxMaxDownloads == 1      \* largest max_downloads a sender asks for (code allows 1..5)
MaxTransfers == 1         \* transfers started from scratch in the lifecycle specification
TickSeconds == 1800       \* seconds by which the clock advances in one step
MaxBudget == 2            \* largest max_downloads of the transfer in the download specification
LIMIT_UNAUTH == 1         \* RATE_LIMIT_UNAUTH (default 100): requests per window without Authorization
LIMIT_AUTH == 2           \* RATE_LIMIT_AUTH (default 1000): requests per window with Authorization
LOGIN_LIMIT == 1          \* RATE_LIMIT_LOGIN (default 10): login requests per window
MaxRate == 3              \* requests of one address counted in one window

\* ------------------------------------------------------ program constants
LOCK_LIMIT == 5           \* TOTP_LOCK_THRESHOLD default
ENC_KEY_TTL == 3600       \* seconds an enc_key entry lives after a SET

SessionIds == 1..NumSessions
Procs      == 1..NumProcs
Tokens     == 1..NumTokens
Users      == {"alice", "bob"}     \* registered, active users with a TOTP secret
NoUser     == "nobody"             \* an email with no account
Emails     == Users \cup {NoUser}
\* The wrapped keys and the file ids senders submit are different strings.
WrappedKey(p) == 100 + p
WrappedKeys   == {WrappedKey(p) : p \in Procs}
Keyless    == {"carol"}            \* active accounts without a usable primary public key
Recipients == Emails \cup Keyless

Null == 0                  \* null column / absent Redis key

\* Client addresses as the middlewares take them from X-Forwarded-For, cut
\* at the colons; the header is whatever the client sent.
Ips == {<<"a">>, <<"login", "a">>}

\* `rate:${ip}` and `rate:login:${ip}`, cut at the colons.
RateKey(ip)  == <<"rate">> \o ip
LoginKey(ip) == <<"rate", "login">> \o ip
RateKeys == {RateKey(ip) : ip \in Ips} \cup {LoginKey(ip) : ip \in Ips}
NoAuth == [userId |-> NoUser, urlToken |-> Null]   \* absent session:{auth_token}

VARIABLES
    sessions,     \* transfer_sessions rows, by id (= urlToken)
    encKey,       \* Redis enc_key:{url_token}: Null or the wrapped key blob
    authSession,  \* Redis session:{auth_token}: NoAuth or [userId, urlToken]
    minted,       \* history: the urlToken each token was minted for (Null: never)
    lockCount,    \* Redis lock:{url_token} value (0: key absent)
    lockHasTtl,   \* whether lock:{url_token} carries an expiry
    completed,    \* history: complete() has returned success for the urlToken
    adminDeleted, \* history: admin deleteSession() has returned for the session
    unlocked,     \* history: unlockSession() has deleted a counter that was at the limit
    cutShort,     \* history: a complete() stopped between its cache delete and its update
    pc,           \* position of each request
    loc,          \* locals of each request
    down,         \* the collaborators whose calls fail at the moment
    keyTtl,       \* seconds enc_key:{url_token} has left to live (0: absent)
    keyAge,       \* history: seconds since the first SET of enc_key (NeverStored: none yet)
    rateCount,    \* Redis rate:{ip} and rate:login:{ip} values, by key (0: absent)
    rateHasTtl,   \* whether the rate key carries an expiry
    passed        \* history: counter values of the requests let through in the running window

rateVars == <<rateCount, rateHasTtl, passed>>

vars == <<sessions, encKey, authSession, minted, lockCount, lockHasTtl,
          completed, adminDeleted, unlocked, cutShort, pc, loc,
          down, keyTtl, keyAge, rateCount, rateHasTtl, passed>>

NeverStored == -1

\* A row that does not exist yet.
NoSession ==
    [exists |-> FALSE, senderId |-> NoUser, recipient |-> NoUser,
     status |-> "none", cloudFileId |-> Null, maxDownloads |-> 0,
     downloadCount |-> 0, expired |-> FALSE, deletedAt |-> FALSE]

\* Locals of a request that is not running.
NoLoc ==
    [op |-> "none", urlToken |-> 0, authToken |-> 0, senderId |-> NoUser,
     email |-> NoUser, otpValid |-> FALSE, userId |-> NoUser,
     downloadCount |-> 0, maxDownloads |-> 0, cloudFileId |-> Null,
     encKeyB64 |-> Null, count |-> 0, result |-> "none", key |-> Null,
     afterComplete |-> FALSE, afterDeleted |-> FALSE, afterAdminDelete |-> FALSE,
     afterUnlock |-> FALSE, lockedAtCall |-> FALSE,
     keyWasAbsent |-> FALSE, releasedAfterComplete |-> FALSE, afterCutShort |-> FALSE,
     remaining |-> 0, authFailEvent |-> FALSE, lockEvent |-> FALSE,
     failedBefore |-> 0, cloudFailed |-> FALSE, emailSent |-> FALSE,
     auditFailed |-> FALSE, detail |-> "", uploadRequested |-> FALSE,
     metadata |-> [step |-> "none"],
     ip |-> << >>, rkey |-> << >>, limit |-> 0, staleWindow |-> FALSE]

Init ==
    /\ sessions     = [s \in SessionIds |-> NoSession]
    /\ encKey       = [s \in SessionIds |-> Null]
    /\ authSession  = [t \in Tokens |-> NoAuth]
    /\ minted       = [t \in Tokens |-> Null]
    /\ lockCount    = [s \in SessionIds |-> 0]
    /\ lockHasTtl   = [s \in SessionIds |-> FALSE]
    /\ completed    = [s \in SessionIds |-> FALSE]
    /\ adminDeleted = [s \in SessionIds |-> FALSE]
    /\ unlocked     = [s \in SessionIds |-> FALSE]
    /\ cutShort     = [s \in SessionIds |-> FALSE]
    /\ pc           = [p \in Procs |-> "idle"]
    /\ loc          = [p \in Procs |-> NoLoc]
    /\ down         = {}
    /\ keyTtl       = [s \in SessionIds |-> 0]
    /\ keyAge       = [s \in SessionIds |-> NeverStored]
    /\ rateCount    = [k \in RateKeys |-> 0]
    /\ rateHasTtl   = [k \in RateKeys |-> FALSE]
    /\ passed       = [k \in RateKeys |-> {}]

\* ------------------------------------------------------------- helpers
\* A request starts: its locals are the call's arguments plus what was
\* already true of the session when it was invoked.
Begin(op, s, more) ==
    [f \in DOMAIN NoLoc |->
        IF f \in DOMAIN more THEN more[f]
        ELSE IF f = "op" THEN op
        ELSE IF f = "urlToken" THEN s
        ELSE IF f = "afterComplete" THEN completed[s]
        ELSE IF f = "afterDeleted" THEN sessions[s].deletedAt
        ELSE IF f = "afterAdminDelete" THEN adminDeleted[s]
        ELSE IF f = "afterUnlock" THEN unlocked[s]
        ELSE IF f = "afterCutShort" THEN cutShort[s]
        ELSE IF f = "lockedAtCall" THEN lockCount[s] >= LOCK_LIMIT
        ELSE NoLoc[f]]

\* The request of p ends with a result (thrown error kind or "ok").
Finish(p, l, r) ==
    /\ pc'  = [pc EXCEPT ![p] = "done"]
    /\ loc' = [loc EXCEPT ![p] = [l EXCEPT !.result = r]]

Goto(p, l, label) ==
    /\ pc'  = [pc EXCEPT ![p] = label]
    /\ loc' = [loc EXCEPT ![p] = l]

\* An audit write that lets the failure of the insert through.
writeAuditLogError_throws == IF "audit" \in down THEN "Internal" ELSE "none"

\* writeAuditLog (and the .catch of the admin service): the insert into the
\* audit table is wrapped in try/catch that only logs, so the caller never
\* sees an error.
writeAuditLogError == "none"

\* The request of p writes its audit row(s) and ends with result r.
FinishAudited(p, l, r) ==
    Finish(p, [l EXCEPT !.auditFailed = ("audit" \in down)],
           IF writeAuditLogError # "none" THEN writeAuditLogError ELSE r)

\* --------------------------------------------------------- error responses
\* The fixed message each error class passes to Error (types/errors.ts).
Title(kind) ==
    IF kind = "NotFound" THEN "Resource not found"
    ELSE IF kind = "Gone" THEN "Resource is no longer available"
    ELSE kind

\* An error handler that puts the detail of the error in the body.
errorResponse_detail(l) == [type |-> l.result, title |-> l.detail]

\* errorHandler: the problem document is made of the class of the error
\* and err.message; the detail the service gave to the constructor is not
\* part of it.
errorResponse(l) == [type |-> l.result, title |-> Title(l.result)]

\* ---------------------------------------------- TransferService.initiate
\* Creates the row in status 'initiated' with cloudFileId null and
\* downloadCount 0 (column default).  Session rows are created in id order.
initiate(p, sender, recipient, maxDownloads) ==
    /\ pc[p] = "idle"
    /\ \E s \in SessionIds :
        /\ ~sessions[s].exists
        /\ \A r \in SessionIds : r < s => sessions[r].exists
        /\ LET l == Begin("initiate", s, [senderId |-> sender, email |-> recipient])
           IN  IF maxDownloads < 1 \/ maxDownloads > 5
               THEN /\ Finish(p, l, "BadRequest")
                    /\ UNCHANGED sessions
               ELSE IF recipient \notin Users \cup Keyless
               THEN /\ Finish(p, [l EXCEPT !.detail = "Recipient not found"], "NotFound")
                    /\ UNCHANGED sessions
               ELSE IF recipient \in Keyless
               THEN /\ Finish(p, [l EXCEPT !.detail = "No active Kyber-768 public key found for recipient"],
                              "NotFound")
                    /\ UNCHANGED sessions
               ELSE /\ sessions' = [sessions EXCEPT ![s] =
                           [exists |-> TRUE, senderId |-> sender, recipient |-> recipient,
                            status |-> "initiated", cloudFileId |-> Null,
                            maxDownloads |-> maxDownloads, downloadCount |-> 0,
                            expired |-> FALSE, deletedAt |-> FALSE]]
                    /\ FinishAudited(p, [l EXCEPT !.uploadRequested = TRUE], "ok")
    /\ UNCHANGED <<down, keyTtl, keyAge, rateVars, encKey, authSession, minted, lockCount, lockHasTtl,
                   completed, adminDeleted, unlocked, cutShort>>

\* ---------------------------------------------- TransferService.storeKey
\* The sender and status checks on the row storeKey() has read.
storeKeyError(row, sender) ==
    IF ~row.exists THEN "NotFound"
    ELSE IF row.senderId # sender THEN "Forbidden"
    ELSE IF row.status # "initiated" THEN "BadRequest"
    ELSE "none"

storeKey_find(p, s, sender) ==
    /\ pc[p] = "idle"
    /\ LET l == Begin("storeKey", s,
                      [senderId |-> sender, encKeyB64 |-> WrappedKey(p), cloudFileId |-> p])
           e == storeKeyError(sessions[s], sender)
       IN  IF e # "none" THEN Finish(p, l, e) ELSE Goto(p, l, "storeKey_set")
    /\ UNCHANGED <<down, keyTtl, keyAge, rateVars, sessions, encKey, authSession, minted, lockCount, lockHasTtl,
                   completed, adminDeleted, unlocked, cutShort>>

\* setEncKey: Redis SET enc_key:{urlToken} EX 3600.
setEncKey(s, encKeyB64) == [encKey EXCEPT ![s] = encKeyB64]

\* SET ... EX gives the entry ENC_KEY_TTL seconds from now, whether or not
\* the key existed.
setEncKeyTtl(s) == [keyTtl EXCEPT ![s] = ENC_KEY_TTL]

\* The age of an entry runs from the SET that created it: a SET over an
\* entry that is still there does not make it a new entry.
FirstStore(s) == [keyAge EXCEPT ![s] = IF encKey[s] = Null THEN 0 ELSE @]

\* DEL, or the end of the TTL: the entry has no time left.
NoTtl(s) == [keyTtl EXCEPT ![s] = 0]

storeKey_set(p) ==
    /\ pc[p] = "storeKey_set"
    /\ encKey' = setEncKey(loc[p].urlToken, loc[p].encKeyB64)
    /\ keyTtl' = setEncKeyTtl(loc[p].urlToken)
    /\ keyAge' = FirstStore(loc[p].urlToken)
    /\ Goto(p, loc[p], "storeKey_update")
    /\ UNCHANGED <<down, rateVars, sessions, authSession, minted, lockCount, lockHasTtl,
                   completed, adminDeleted, unlocked, cutShort>>

\* An audit row that records the wrapped key next to the file id.
storeKeyMetadata_withKey(l) ==
    [step |-> "key_stored", cloudFileId |-> l.cloudFileId, encKeyB64 |-> l.encKeyB64]

\* metadata: { step: 'key_stored', cloudFileId } of the audit row.
storeKeyMetadata(l) == [step |-> "key_stored", cloudFileId |-> l.cloudFileId]

\* update { cloudFileId } where id, then the audit row, then return.
storeKey_update(p) ==
    /\ pc[p] = "storeKey_update"
    /\ sessions' = [sessions EXCEPT ![loc[p].urlToken].cloudFileId = loc[p].cloudFileId]
    /\ FinishAudited(p, [loc[p] EXCEPT !.metadata = storeKeyMetadata(loc[p])], "ok")
    /\ UNCHANGED <<down, keyTtl, keyAge, rateVars, encKey, authSession, minted, lockCount, lockHasTtl,
                   completed, adminDeleted, unlocked, cutShort>>

\* ------------------------------------------- TransferService.finalizeUrl
\* finalizeUrl() that forgets to require the uploaded file.
finalizeUrlError_nofile(row, sender) ==
    IF ~row.exists THEN "NotFound"
    ELSE IF row.senderId # sender THEN "Forbidden"
    ELSE IF row.status # "initiated" THEN "BadRequest"
    ELSE "none"

\* The checks on the row finalizeUrl() has read.
finalizeUrlError(row, sender) ==
    IF ~row.exists THEN "NotFound"
    ELSE IF row.senderId # sender THEN "Forbidden"
    ELSE IF row.cloudFileId = Null THEN "BadRequest"
    ELSE IF row.status # "initiated" THEN "BadRequest"
    ELSE "none"

finalizeUrl_find(p, s, sender) ==
    /\ pc[p] = "idle"
    /\ LET l == Begin("finalizeUrl", s, [senderId |-> sender])
           e == finalizeUrlError(sessions[s], sender)
       IN  IF e # "none" THEN Finish(p, l, e) ELSE Goto(p, l, "finalizeUrl_update")
    /\ UNCHANGED <<down, keyTtl, keyAge, rateVars, sessions, encKey, authSession, minted, lockCount, lockHasTtl,
                   completed, adminDeleted, unlocked, cutShort>>

\* sendDownloadLink throws when the mail service fails.
sendDownloadLinkFails == "mail" \in down

\* A finalizeUrl() that takes the transition back when the e-mail fails.
finalizeUrl_update_rollback(p) ==
    /\ pc[p] = "finalizeUrl_update"
    /\ IF sendDownloadLinkFails
       THEN /\ UNCHANGED sessions
            /\ Finish(p, loc[p], "EmailFailed")
       ELSE /\ sessions' = [sessions EXCEPT ![loc[p].urlToken].status = "ready"]
            /\ Finish(p, [loc[p] EXCEPT !.emailSent = TRUE], "ok")
    /\ UNCHANGED <<down, keyTtl, keyAge, rateVars, encKey, authSession, minted, lockCount,
                   lockHasTtl, completed, adminDeleted, unlocked, cutShort>>

\* update { status: 'ready' } where id; then sendDownloadLink in a
\* try/catch that only logs: the answer carries emailSent.
finalizeUrl_update(p) ==
    /\ pc[p] = "finalizeUrl_update"
    /\ sessions' = [sessions EXCEPT ![loc[p].urlToken].status = "ready"]
    /\ Finish(p, [loc[p] EXCEPT !.emailSent = ~sendDownloadLinkFails], "ok")
    /\ UNCHANGED <<down, keyTtl, keyAge, rateVars, encKey, authSession, minted, lockCount, lockHasTtl,
                   completed, adminDeleted, unlocked, cutShort>>

\* ------------------------------------------------- redis.service helpers
\* getAuthSession: GET session:{auth_token}, parsed; NoAuth when absent.
getAuthSession(authToken) == authSession[authToken]

\* A binding check that accepts any live auth session.
AuthError_unbound(entry, urlToken) ==
    IF entry = NoAuth THEN "Unauthorized" ELSE "none"

\* The binding check of getKey() and complete(): the entry exists and its
\* urlToken is the path parameter.
AuthError(entry, urlToken) ==
    IF entry = NoAuth THEN "Unauthorized"
    ELSE IF entry.urlToken # urlToken THEN "Unauthorized"
    ELSE "none"

\* delEncKey: DEL enc_key:{url_token}; deleting an absent key is not an error.
delEncKey(s) == [encKey EXCEPT ![s] = Null]
\* A delete that reports a missing key as an error.
delEncKeyError_strict(s) == IF encKey[s] = Null THEN "NotFound" ELSE "none"

\* redisDel resolves whether or not the key existed.
delEncKeyError(s) == "none"

\* getLockCount / isLocked.
getLockCount(s) == lockCount[s]
\* A lock test that is off by one.
isLocked_strict(s) == getLockCount(s) > LOCK_LIMIT

isLocked(s) == getLockCount(s) >= LOCK_LIMIT

\* An unlock that leaves one attempt instead of deleting the counter.
delLock_oneLeft(s) == [lockCount EXCEPT ![s] = LOCK_LIMIT - 1]

\* delLock: DEL lock:{url_token}.
delLock(s) == [lockCount EXCEPT ![s] = 0]

\* ----------------------------------------------- DownloadService.getInfo
\* getInfo() that does not look at deletedAt.
getInfoSessionError_nodeleted(row) ==
    IF ~row.exists THEN "NotFound"
    ELSE IF row.expired THEN "Gone"
    ELSE IF row.downloadCount >= row.maxDownloads THEN "Gone"
    ELSE "none"

\* The checks on the row getInfo() has read, in the order of the code.
getInfoSessionError(row) ==
    IF ~row.exists \/ row.deletedAt THEN "NotFound"
    ELSE IF row.expired THEN "Gone"
    ELSE IF row.downloadCount >= row.maxDownloads THEN "Gone"
    ELSE "none"

\* A getInfo() that does not look at expiresAt.
getInfo_find_late(p, s) ==
    /\ pc[p] = "idle"
    /\ LET l == Begin("getInfo", s, << >>)
       IN  IF ~sessions[s].exists \/ sessions[s].deletedAt THEN Finish(p, l, "NotFound")
           ELSE Goto(p, [l EXCEPT !.downloadCount = sessions[s].downloadCount,
                                  !.maxDownloads  = sessions[s].maxDownloads],
                     "getInfo_lock")
    /\ UNCHANGED <<down, keyTtl, keyAge, rateVars, sessions, encKey, authSession, minted, lockCount, lockHasTtl,
                   completed, adminDeleted, unlocked, cutShort>>

\* findUnique by urlToken and the three checks on the row.
getInfo_find(p, s) ==
    /\ pc[p] = "idle"
    /\ LET l == Begin("getInfo", s, << >>)
           e == getInfoSessionError(sessions[s])
       IN  IF e # "none" THEN Finish(p, l, e)
           ELSE Goto(p, [l EXCEPT !.downloadCount = sessions[s].downloadCount,
                                  !.maxDownloads  = sessions[s].maxDownloads],
                     "getInfo_lock")
    /\ UNCHANGED <<down, keyTtl, keyAge, rateVars, sessions, encKey, authSession, minted, lockCount, lockHasTtl,
                   completed, adminDeleted, unlocked, cutShort>>

\* isLocked(urlToken), then the 'access' audit row and the answer, whose
\* remainingDownloads comes from the row as it was read.
getInfo_lock(p) ==
    /\ pc[p] = "getInfo_lock"
    /\ IF isLocked(loc[p].urlToken) THEN Finish(p, loc[p], "Locked")
       ELSE FinishAudited(p, [loc[p] EXCEPT !.remaining = loc[p].maxDownloads - loc[p].downloadCount], "ok")
    /\ UNCHANGED <<down, keyTtl, keyAge, rateVars, sessions, encKey, authSession, minted, lockCount, lockHasTtl,
                   completed, adminDeleted, unlocked, cutShort>>

\* ------------------------------------------------ DownloadService.getKey
getKey_auth(p, s, t) ==
    /\ pc[p] = "idle"
    /\ LET l == Begin("getKey", s, [authToken |-> t])
           e == AuthError(getAuthSession(t), s)
       IN  IF e # "none" THEN Finish(p, l, e)
           ELSE Goto(p, [l EXCEPT !.userId = getAuthSession(t).userId], "getKey_find")
    /\ UNCHANGED <<down, keyTtl, keyAge, rateVars, sessions, encKey, authSession, minted, lockCount, lockHasTtl,
                   completed, adminDeleted, unlocked, cutShort>>

\* Checks that do not look at the download budget.
getKeySessionError_nobudget(row) ==
    IF ~row.exists \/ row.deletedAt THEN "NotFound"
    ELSE IF row.expired THEN "Gone"
    ELSE IF row.cloudFileId = Null THEN "NotFound"
    ELSE "none"

\* The validity checks on the row getKey() has just read.
getKeySessionError(row) ==
    IF ~row.exists \/ row.deletedAt THEN "NotFound"
    ELSE IF row.expired THEN "Gone"
    ELSE IF row.downloadCount >= row.maxDownloads THEN "Gone"
    ELSE IF row.cloudFileId = Null THEN "NotFound"
    ELSE "none"

getKey_find(p) ==
    /\ pc[p] = "getKey_find"
    /\ LET row == sessions[loc[p].urlToken]
           e   == getKeySessionError(row)
       IN  IF e # "none" THEN Finish(p, loc[p], e)
           ELSE Goto(p, [loc[p] EXCEPT !.downloadCount = row.downloadCount,
                                       !.maxDownloads  = row.maxDownloads,
                                       !.cloudFileId   = row.cloudFileId],
                     "getKey_enc")
    /\ UNCHANGED <<down, keyTtl, keyAge, rateVars, sessions, encKey, authSession, minted, lockCount, lockHasTtl,
                   completed, adminDeleted, unlocked, cutShort>>

\* A getKey() that counts the download before it has the key and the URL.
getKey_enc_eager(p, cloudOk) ==
    /\ pc[p] = "getKey_enc"
    /\ LET k == encKey[loc[p].urlToken]
       IN  IF k = Null THEN Finish(p, loc[p], "NotFound")
           ELSE IF ~cloudOk THEN Finish(p, loc[p], "CloudStorageError")
           ELSE Goto(p, [loc[p] EXCEPT !.key = k], "getKey_update")
    /\ sessions' = [sessions EXCEPT ![loc[p].urlToken].downloadCount =
                        IF encKey[loc[p].urlToken] = Null \/ ~cloudOk THEN @ + 1 ELSE @]
    /\ UNCHANGED <<down, keyTtl, keyAge, rateVars, encKey, authSession, minted, lockCount,
                   lockHasTtl, completed, adminDeleted, unlocked, cutShort>>

\* getEncKey, then createSignedDownloadUrl (which may throw).
getKey_enc(p, cloudOk) ==
    /\ pc[p] = "getKey_enc"
    /\ LET k == encKey[loc[p].urlToken]
       IN  IF k = Null THEN Finish(p, loc[p], "NotFound")
           ELSE IF ~cloudOk THEN Finish(p, loc[p], "CloudStorageError")
           ELSE Goto(p, [loc[p] EXCEPT !.key = k], "getKey_update")
    /\ UNCHANGED <<down, keyTtl, keyAge, rateVars, sessions, encKey, authSession, minted, lockCount, lockHasTtl,
                   completed, adminDeleted, unlocked, cutShort>>

\* status written by getKey(): computed from the row as it was read.
getKeyStatus(downloadCount, maxDownloads) ==
    IF downloadCount + 1 >= maxDownloads THEN "downloaded" ELSE "ready"

\* update { downloadCount: {increment: 1}, status } where id: the increment
\* is atomic in the store, unconditional, and the status comes from the
\* earlier read.  The wrapped key is returned.
getKeyUpdate(row, l) ==
    [row EXCEPT !.downloadCount = row.downloadCount + 1,
                !.status = getKeyStatus(l.downloadCount, l.maxDownloads)]

getKey_update(p) ==
    /\ pc[p] = "getKey_update"
    /\ sessions' = [sessions EXCEPT ![loc[p].urlToken] = getKeyUpdate(@, loc[p])]
    /\ FinishAudited(p, [loc[p] EXCEPT !.releasedAfterComplete = completed[loc[p].urlToken]], "ok")
    /\ UNCHANGED <<down, keyTtl, keyAge, rateVars, encKey, authSession, minted, lockCount, lockHasTtl,
                   completed, adminDeleted, unlocked, cutShort>>

\* ---------------------------------------------- DownloadService.complete
complete_auth(p, s, t) ==
    /\ pc[p] = "idle"
    /\ LET l == Begin("complete", s, [authToken |-> t])
           e == AuthError(getAuthSession(t), s)
       IN  IF e # "none" THEN Finish(p, l, e)
           ELSE Goto(p, [l EXCEPT !.userId = getAuthSession(t).userId], "complete_find")
    /\ UNCHANGED <<down, keyTtl, keyAge, rateVars, sessions, encKey, authSession, minted, lockCount, lockHasTtl,
                   completed, adminDeleted, unlocked, cutShort>>

complete_find(p) ==
    /\ pc[p] = "complete_find"
    /\ LET row == sessions[loc[p].urlToken]
       IN  IF ~row.exists \/ row.deletedAt THEN Finish(p, loc[p], "NotFound")
           ELSE Goto(p, [loc[p] EXCEPT !.cloudFileId = row.cloudFileId], "complete_del")
    /\ UNCHANGED <<down, keyTtl, keyAge, rateVars, sessions, encKey, authSession, minted, lockCount, lockHasTtl,
                   completed, adminDeleted, unlocked, cutShort>>

\* deleteCloudFile throws when the storage provider fails; complete() calls
\* it only for a session that has a cloudFileId.
deleteCloudFileFails(cloudFileId) == cloudFileId # Null /\ "cloud" \in down

\* A complete() that lets the storage failure through to its caller.
complete_del_strict(p) ==
    /\ pc[p] = "complete_del"
    /\ LET s == loc[p].urlToken
           l == [loc[p] EXCEPT !.keyWasAbsent = (encKey[s] = Null),
                               !.cloudFailed = deleteCloudFileFails(loc[p].cloudFileId)]
       IN  /\ encKey' = delEncKey(s) /\ keyTtl' = NoTtl(s)
           /\ IF l.cloudFailed THEN Finish(p, l, "CloudStorageError")
              ELSE Goto(p, l, "complete_update")
    /\ UNCHANGED keyAge
    /\ UNCHANGED <<down, rateVars, sessions, authSession, minted, lockCount, lockHasTtl,
                   completed, adminDeleted, unlocked, cutShort>>

\* delEncKey, then deleteCloudFile whose failure is caught and logged.
complete_del(p) ==
    /\ pc[p] = "complete_del"
    /\ LET s == loc[p].urlToken
           l == [loc[p] EXCEPT !.keyWasAbsent = (encKey[s] = Null),
                               !.cloudFailed = deleteCloudFileFails(loc[p].cloudFileId)]
       IN  IF delEncKeyError(s) # "none"
           THEN Finish(p, l, delEncKeyError(s)) /\ UNCHANGED <<encKey, keyTtl>>
           ELSE /\ encKey' = delEncKey(s) /\ keyTtl' = NoTtl(s)
                /\ Goto(p, l, "complete_update")
    /\ UNCHANGED keyAge
    /\ UNCHANGED <<down, rateVars, sessions, authSession, minted, lockCount, lockHasTtl,
                   completed, adminDeleted, unlocked, cutShort>>

\* A delete that removes the row.
markDeleted_hard(row) == NoSession

\* update { deletedAt: now, status: 'deleted' } where id.
markDeleted(row) == [row EXCEPT !.deletedAt = TRUE, !.status = "deleted"]

complete_update(p) ==
    /\ pc[p] = "complete_update"
    /\ sessions' = [sessions EXCEPT ![loc[p].urlToken] = markDeleted(@)]
    /\ completed' = [completed EXCEPT ![loc[p].urlToken] = TRUE]
    /\ FinishAudited(p, loc[p], "ok")
    /\ UNCHANGED <<down, keyTtl, keyAge, rateVars, encKey, authSession, minted, lockCount, lockHasTtl, adminDeleted, unlocked, cutShort>>

\* ------------------------------------------- AdminService.deleteSession
deleteSession_find(p, s) ==
    /\ pc[p] = "idle"
    /\ LET l == Begin("deleteSession", s, << >>)
       IN  IF ~sessions[s].exists THEN Finish(p, l, "NotFound")
           ELSE Goto(p, l, "deleteSession_del")
    /\ UNCHANGED <<down, keyTtl, keyAge, rateVars, sessions, encKey, authSession, minted, lockCount, lockHasTtl,
                   completed, adminDeleted, unlocked, cutShort>>

deleteSession_del(p) ==
    /\ pc[p] = "deleteSession_del"
    /\ encKey' = delEncKey(loc[p].urlToken)
    /\ keyTtl' = NoTtl(loc[p].urlToken)
    /\ Goto(p, loc[p], "deleteSession_update")
    /\ UNCHANGED keyAge
    /\ UNCHANGED <<down, rateVars, sessions, authSession, minted, lockCount, lockHasTtl,
                   completed, adminDeleted, unlocked, cutShort>>

deleteSession_update(p) ==
    /\ pc[p] = "deleteSession_update"
    /\ sessions' = [sessions EXCEPT ![loc[p].urlToken] = markDeleted(@)]
    /\ adminDeleted' = [adminDeleted EXCEPT ![loc[p].urlToken] = TRUE]
    /\ FinishAudited(p, loc[p], "ok")
    /\ UNCHANGED <<down, keyTtl, keyAge, rateVars, encKey, authSession, minted, lockCount, lockHasTtl, completed, unlocked, cutShort>>

\* ------------------------------------------- AdminService.unlockSession
unlockSession_find(p, s) ==
    /\ pc[p] = "idle"
    /\ LET l == Begin("unlockSession", s, << >>)
       IN  IF ~sessions[s].exists THEN Finish(p, l, "NotFound")
           ELSE Goto(p, l, "unlockSession_del")
    /\ UNCHANGED <<down, keyTtl, keyAge, rateVars, sessions, encKey, authSession, minted, lockCount, lockHasTtl,
                   completed, adminDeleted, unlocked, cutShort>>

unlockSession_del(p) ==
    /\ pc[p] = "unlockSession_del"
    /\ lockCount'  = delLock(loc[p].urlToken)
    /\ lockHasTtl' = [lockHasTtl EXCEPT ![loc[p].urlToken] = FALSE]
    /\ unlocked'   = [unlocked EXCEPT ![loc[p].urlToken] = @ \/ isLocked(loc[p].urlToken)]
    /\ FinishAudited(p, loc[p], "ok")
    /\ UNCHANGED <<down, keyTtl, keyAge, rateVars, sessions, encKey, authSession, minted, completed, adminDeleted, cutShort>>

\* -------------------------------------------------- AuthService.verifyTotp
\* Tokens are fresh random values: a token is minted at most once, in order.
FreeTokens == {t \in Tokens : minted[t] = Null}
Minting    == {q \in Procs : pc[q] \in {"verifyTotp_find", "verifyTotp_issue"}
                             /\ loc[q].otpValid /\ loc[q].email \in Users}

\* A verifyTotp() that counts a wrong code against a locked URL as one more
\* failure.
verifyTotp_lock_counting(p, s, email, otpValid) ==
    /\ pc[p] = "idle"
    /\ (otpValid /\ email \in Users) => Cardinality(FreeTokens) > Cardinality(Minting)
    /\ LET l == Begin("verifyTotp", s, [email |-> email, otpValid |-> otpValid])
       IN  IF isLocked(s) /\ otpValid THEN FinishAudited(p, [l EXCEPT !.lockEvent = TRUE], "Locked")
           ELSE IF isLocked(s) THEN Goto(p, l, "verifyTotp_incr")
           ELSE Goto(p, l, "verifyTotp_find")
    /\ UNCHANGED <<down, keyTtl, keyAge, rateVars, sessions, encKey, authSession, minted, lockCount, lockHasTtl,
                   completed, adminDeleted, unlocked, cutShort>>

\* 1. isLocked(urlToken): a locked URL is rejected before anything else,
\* with a 'lock' audit row (reason already_locked).  Audit rows are written
\* by writeAuditLog, which never throws and which nothing reads back; the
\* rows a request has written are kept in its locals.
verifyTotp_lock(p, s, email, otpValid) ==
    /\ pc[p] = "idle"
    /\ (otpValid /\ email \in Users) => Cardinality(FreeTokens) > Cardinality(Minting)
    /\ LET l == Begin("verifyTotp", s, [email |-> email, otpValid |-> otpValid])
       IN  IF isLocked(s) THEN FinishAudited(p, [l EXCEPT !.lockEvent = TRUE], "Locked")
           ELSE Goto(p, l, "verifyTotp_find")
    /\ UNCHANGED <<down, keyTtl, keyAge, rateVars, sessions, encKey, authSession, minted, lockCount, lockHasTtl,
                   completed, adminDeleted, unlocked, cutShort>>

\* The checks on the row verifyTotp() has read.
verifyTotpSessionError(row) ==
    IF ~row.exists \/ row.deletedAt THEN "NotFound"
    ELSE IF row.expired THEN "NotFound"
    ELSE IF row.status = "deleted" \/ row.status = "expired" THEN "NotFound"
    ELSE "none"

\* 2.-5. session lookup, lookup of the user named by the submitted e-mail,
\* and the check of the code against that user's secret.
verifyTotp_find(p) ==
    /\ pc[p] = "verifyTotp_find"
    /\ LET row == sessions[loc[p].urlToken]
           e   == verifyTotpSessionError(row)
       IN  IF e # "none" THEN Finish(p, loc[p], e)
           ELSE IF loc[p].email \notin Users THEN Goto(p, loc[p], "verifyTotp_incr")
           ELSE IF ~loc[p].otpValid
                THEN Goto(p, [loc[p] EXCEPT !.userId = loc[p].email], "verifyTotp_incr")
           ELSE Goto(p, [loc[p] EXCEPT !.userId = loc[p].email], "verifyTotp_issue")
    /\ UNCHANGED <<down, keyTtl, keyAge, rateVars, sessions, encKey, authSession, minted, lockCount, lockHasTtl,
                   completed, adminDeleted, unlocked, cutShort>>

\* A success that also forgets the earlier failures.
verifyTotp_issue_reset(p) ==
    /\ pc[p] = "verifyTotp_issue"
    /\ FreeTokens # {}
    /\ LET t == CHOOSE x \in FreeTokens : \A y \in FreeTokens : x <= y
       IN  /\ authSession' = [authSession EXCEPT ![t] =
                                 [userId |-> loc[p].userId, urlToken |-> loc[p].urlToken]]
           /\ minted' = [minted EXCEPT ![t] = loc[p].urlToken]
           /\ FinishAudited(p, [loc[p] EXCEPT !.authToken = t,
                                       !.failedBefore = lockCount[loc[p].urlToken]], "ok")
    /\ lockCount'  = delLock(loc[p].urlToken)
    /\ lockHasTtl' = [lockHasTtl EXCEPT ![loc[p].urlToken] = FALSE]
    /\ UNCHANGED <<down, keyTtl, keyAge, rateVars, sessions, encKey, completed, adminDeleted, unlocked, cutShort>>

\* 7. setAuthSession(authToken, {userId, urlToken}) with a fresh token, then
\* the 'auth_success' audit row.  failedBefore keeps, for the record, the
\* value the counter had at that moment; the code does not read it.
verifyTotp_issue(p) ==
    /\ pc[p] = "verifyTotp_issue"
    /\ FreeTokens # {}
    /\ LET t == CHOOSE x \in FreeTokens : \A y \in FreeTokens : x <= y
       IN  /\ authSession' = [authSession EXCEPT ![t] =
                                 [userId |-> loc[p].userId, urlToken |-> loc[p].urlToken]]
           /\ minted' = [minted EXCEPT ![t] = loc[p].urlToken]
           /\ FinishAudited(p, [loc[p] EXCEPT !.authToken = t,
                                       !.failedBefore = lockCount[loc[p].urlToken]], "ok")
    /\ UNCHANGED <<down, keyTtl, keyAge, rateVars, sessions, encKey, lockCount, lockHasTtl, completed, adminDeleted, unlocked, cutShort>>

\* An increment that stops counting at the limit.
incrementLock_capped(s) ==
    IF lockCount[s] >= LOCK_LIMIT THEN lockCount[s] ELSE lockCount[s] + 1

\* incrementLock: the value INCR lock:{url_token} stores and returns.
incrementLock(s) == lockCount[s] + 1

\* 6. handleTotpFailure -> incrementLock: INCR lock:{url_token} ...
\* handleTotpFailure then writes the 'auth_fail' audit row and, when the
\* count it got is at or over the limit, a 'lock' audit row.
verifyTotp_incr(p) ==
    /\ pc[p] = "verifyTotp_incr"
    /\ LET s == loc[p].urlToken
           count == incrementLock(s)
       IN  /\ lockCount' = [lockCount EXCEPT ![s] = count]
           /\ LET l == [loc[p] EXCEPT !.count = count,
                                      !.authFailEvent = TRUE,
                                      !.lockEvent = (count >= LOCK_LIMIT),
                                      !.auditFailed = ("audit" \in down)]
              IN  IF writeAuditLogError # "none" THEN Finish(p, l, writeAuditLogError)
                  ELSE Goto(p, l, IF count = 1 THEN "verifyTotp_expire"
                                  ELSE "verifyTotp_remaining")
    /\ UNCHANGED <<down, keyTtl, keyAge, rateVars, sessions, encKey, authSession, minted, lockHasTtl,
                   completed, adminDeleted, unlocked, cutShort>>

\* ... then EXPIRE lock:{url_token} 86400 when the increment returned 1.
\* EXPIRE on a key that no longer exists does nothing.
verifyTotp_expire(p) ==
    /\ pc[p] = "verifyTotp_expire"
    /\ lockHasTtl' = [lockHasTtl EXCEPT ![loc[p].urlToken] = (lockCount[loc[p].urlToken] > 0)]
    /\ Goto(p, loc[p], "verifyTotp_remaining")
    /\ UNCHANGED <<down, keyTtl, keyAge, rateVars, sessions, encKey, authSession, minted, lockCount,
                   completed, adminDeleted, unlocked, cutShort>>

\* remainingAttempts: Math.max(0, LOCK_LIMIT - count) of a fresh read of
\* the counter.
remainingAttempts(s) ==
    IF LOCK_LIMIT - getLockCount(s) > 0 THEN LOCK_LIMIT - getLockCount(s) ELSE 0

\* throw new AuthFailedError(await remainingAttempts(urlToken)).
verifyTotp_remaining(p) ==
    /\ pc[p] = "verifyTotp_remaining"
    /\ Finish(p, [loc[p] EXCEPT !.remaining = remainingAttempts(loc[p].urlToken)], "AuthFailed")
    /\ UNCHANGED <<down, keyTtl, keyAge, rateVars, sessions, encKey, authSession, minted, lockCount, lockHasTtl,
                   completed, adminDeleted, unlocked, cutShort>>

\* ------------------------------------------------------------ rate limits
\* redis.incr(key): the counter after an atomic increment.
redisIncr(key) == rateCount[key] + 1

\* A check that admits one request more than the limit.
rateLimited_lax(count, limit) == count > limit + 1

\* if (count > limit) throw new TooManyRequestsError().
rateLimited(count, limit) == count > limit

\* const count = await redis.incr(key), for a request from ip that is
\* judged against limit.
Incr(p, op, ip, key, limit) ==
    /\ pc[p] = "idle"
    /\ rateCount[key] < MaxRate
    /\ rateCount' = [rateCount EXCEPT ![key] = redisIncr(key)]
    /\ Goto(p, [NoLoc EXCEPT !.op = op, !.ip = ip, !.rkey = key, !.limit = limit,
                             !.count = redisIncr(key)],
            IF redisIncr(key) = 1 THEN op \o "_expire" ELSE op \o "_check")
    /\ UNCHANGED <<rateHasTtl, passed>>
    /\ UNCHANGED <<down, keyTtl, keyAge, sessions, encKey, authSession, minted, lockCount,
                   lockHasTtl, completed, adminDeleted, unlocked, cutShort>>

\* if (count === 1) await redis.expire(key, RATE_TTL_SEC).
Expire(p, op) ==
    /\ pc[p] = op \o "_expire"
    /\ rateHasTtl' = [rateHasTtl EXCEPT ![loc[p].rkey] = (rateCount[loc[p].rkey] > 0)]
    /\ Goto(p, loc[p], op \o "_check")
    /\ UNCHANGED <<rateCount, passed>>
    /\ UNCHANGED <<down, keyTtl, keyAge, sessions, encKey, authSession, minted, lockCount,
                   lockHasTtl, completed, adminDeleted, unlocked, cutShort>>

\* throw TooManyRequestsError, or await next(): the request reaches the
\* rest of the application.  passed keeps the counter values of the
\* requests of the running window that were let through.
Check(p, op) ==
    /\ pc[p] = op \o "_check"
    /\ IF rateLimited(loc[p].count, loc[p].limit)
       THEN Finish(p, loc[p], "RateLimited") /\ UNCHANGED passed
       ELSE /\ Finish(p, loc[p], "ok")
            /\ passed' = IF loc[p].staleWindow THEN passed
                         ELSE [passed EXCEPT ![loc[p].rkey] = @ \cup {loc[p].count}]
    /\ UNCHANGED <<rateCount, rateHasTtl>>
    /\ UNCHANGED <<down, keyTtl, keyAge, sessions, encKey, authSession, minted, lockCount,
                   lockHasTtl, completed, adminDeleted, unlocked, cutShort>>

\* rateLimitMiddleware: limit by the presence of an Authorization header,
\* key rate:{ip}.
rate_incr(p, ip, isAuth) ==
    Incr(p, "rate", ip, RateKey(ip), IF isAuth THEN LIMIT_AUTH ELSE LIMIT_UNAUTH)

rate_expire(p) == Expire(p, "rate")

rate_check(p) == Check(p, "rate")

\* A login middleware that counts under the key of the general middleware.
login_incr_shared(p, ip) == Incr(p, "login", ip, RateKey(ip), LOGIN_LIMIT)

\* loginRateLimitMiddleware: key rate:login:{ip}.
login_incr(p, ip) == Incr(p, "login", ip, LoginKey(ip), LOGIN_LIMIT)

login_expire(p) == Expire(p, "login")

login_check(p) == Check(p, "login")

\* --------------------------------------------------------- passage of time
\* The 60 s TTL of a rate counter elapses: the window ends, and the
\* requests counted in it that are still on their way belong to a window
\* that is over.
RateExpire(key) ==
    /\ rateCount[key] > 0 /\ rateHasTtl[key]
    /\ rateCount'  = [rateCount EXCEPT ![key] = 0]
    /\ rateHasTtl' = [rateHasTtl EXCEPT ![key] = FALSE]
    /\ passed'     = [passed EXCEPT ![key] = {}]
    /\ loc' = [p \in Procs |-> IF loc[p].rkey = key
                                THEN [loc[p] EXCEPT !.staleWindow = TRUE] ELSE loc[p]]
    /\ UNCHANGED <<down, keyTtl, keyAge, sessions, encKey, authSession, minted, lockCount,
                   lockHasTtl, completed, adminDeleted, unlocked, cutShort, pc>>

\* now passes expiresAt of a session.
SessionExpire(s) ==
    /\ sessions[s].exists /\ ~sessions[s].expired
    /\ sessions' = [sessions EXCEPT ![s].expired = TRUE]
    /\ UNCHANGED <<down, keyTtl, keyAge, rateVars, encKey, authSession, minted, lockCount, lockHasTtl,
                   completed, adminDeleted, unlocked, cutShort, pc, loc>>

\* The 3600 s TTL of enc_key:{url_token} elapses.
EncKeyExpire(s) ==
    /\ encKey[s] # Null
    /\ encKey' = [encKey EXCEPT ![s] = Null]
    /\ keyTtl' = NoTtl(s)
    /\ UNCHANGED <<keyAge, down, rateVars, sessions, authSession, minted, lockCount, lockHasTtl,
                   completed, adminDeleted, unlocked, cutShort, pc, loc>>

\* TickSeconds pass on the clock of Redis: every enc_key entry loses that
\* much of its TTL and is removed when none is left.
Tick ==
    /\ \E s \in SessionIds : encKey[s] # Null
    /\ keyTtl' = [s \in SessionIds |->
                     IF keyTtl[s] > TickSeconds THEN keyTtl[s] - TickSeconds ELSE 0]
    /\ encKey' = [s \in SessionIds |-> IF keyTtl'[s] = 0 THEN Null ELSE encKey[s]]
    /\ keyAge' = [s \in SessionIds |->
                     IF encKey[s] = Null THEN keyAge[s]
                     ELSE IF keyAge[s] + TickSeconds < ENC_KEY_TTL
                          THEN keyAge[s] + TickSeconds ELSE ENC_KEY_TTL]
    /\ UNCHANGED <<down, rateVars, sessions, authSession, minted, lockCount, lockHasTtl,
                   completed, adminDeleted, unlocked, cutShort, pc, loc>>

\* The 600 s TTL of session:{auth_token} elapses.
AuthExpire(t) ==
    /\ authSession[t] # NoAuth
    /\ authSession' = [authSession EXCEPT ![t] = NoAuth]
    /\ UNCHANGED <<down, keyTtl, keyAge, rateVars, sessions, encKey, minted, lockCount, lockHasTtl,
                   completed, adminDeleted, unlocked, cutShort, pc, loc>>

\* The 86400 s TTL of lock:{url_token} elapses.
LockExpire(s) ==
    /\ lockCount[s] > 0 /\ lockHasTtl[s]
    /\ lockCount'  = [lockCount EXCEPT ![s] = 0]
    /\ lockHasTtl' = [lockHasTtl EXCEPT ![s] = FALSE]
    /\ UNCHANGED <<down, keyTtl, keyAge, rateVars, sessions, encKey, authSession, minted,
                   completed, adminDeleted, unlocked, cutShort, pc, loc>>

\* ----------------------------------------------------------- collaborators
\* The object storage, the mail service and the audit table are reached
\* over the network; each may start and stop failing at any time.
Collaborators == {"audit", "cloud", "mail"}

Outage(c) ==
    /\ c \notin down
    /\ down' = down \cup {c}
    /\ UNCHANGED <<keyTtl, keyAge, rateVars, sessions, encKey, authSession, minted, lockCount,
                   lockHasTtl, completed, adminDeleted, unlocked, cutShort, pc, loc>>

Recover(c) ==
    /\ c \in down
    /\ down' = down \ {c}
    /\ UNCHANGED <<keyTtl, keyAge, rateVars, sessions, encKey, authSession, minted, lockCount,
                   lockHasTtl, completed, adminDeleted, unlocked, cutShort, pc, loc>>

\* ------------------------------------------------------- request plumbing
\* The response has been sent; the worker takes the next request.
Return(p) ==
    /\ pc[p] = "done"
    /\ pc'  = [pc EXCEPT ![p] = "idle"]
    /\ loc' = [loc EXCEPT ![p] = NoLoc]
    /\ UNCHANGED <<down, keyTtl, keyAge, rateVars, sessions, encKey, authSession, minted, lockCount, lockHasTtl,
                   completed, adminDeleted, unlocked, cutShort>>

\* The process stops between two awaits of a request.
Interrupt(p) ==
    /\ pc[p] \notin {"idle", "done"}
    /\ pc'  = [pc EXCEPT ![p] = "idle"]
    /\ loc' = [loc EXCEPT ![p] = NoLoc]
    /\ cutShort' = IF pc[p] = "complete_update"
                   THEN [cutShort EXCEPT ![loc[p].urlToken] = TRUE]
                   ELSE cutShort
    /\ UNCHANGED <<down, keyTtl, keyAge, rateVars, sessions, encKey, authSession, minted, lockCount, lockHasTtl,
                   completed, adminDeleted, unlocked>>

\* ---------------------------------------------------------- specification
Created == {s \in SessionIds : sessions[s].exists}

\* One transfer from initiate() to deletion, under concurrent requests of
\* the sender, the recipient (who knows the TOTP code) and an administrator.
Next ==
    \/ \E p \in Procs, m \in 1..MaxMaxDownloads :
          Cardinality(Created) < MaxTransfers /\ initiate(p, "alice", "bob", m)
    \/ \E p \in Procs, s \in Created : storeKey_find(p, s, "alice")
    \/ \E p \in Procs : storeKey_set(p)
    \/ \E p \in Procs : storeKey_update(p)
    \/ \E p \in Procs, s \in Created : finalizeUrl_find(p, s, "alice")
    \/ \E p \in Procs : finalizeUrl_update(p)
    \/ \E p \in Procs, s \in Created : verifyTotp_lock(p, s, "bob", TRUE)
    \/ \E p \in Procs : verifyTotp_find(p)
    \/ \E p \in Procs : verifyTotp_issue(p)
    \/ \E p \in Procs, s \in Created, t \in Tokens : getKey_auth(p, s, t)
    \/ \E p \in Procs : getKey_find(p)
    \/ \E p \in Procs, cloudOk \in BOOLEAN : getKey_enc(p, cloudOk)
    \/ \E p \in Procs : getKey_update(p)
    \/ \E p \in Procs, s \in Created, t \in Tokens : complete_auth(p, s, t)
    \/ \E p \in Procs : complete_find(p)
    \/ \E p \in Procs : complete_del(p)
    \/ \E p \in Procs : complete_update(p)
    \/ \E p \in Procs, s \in Created : deleteSession_find(p, s)
    \/ \E p \in Procs : deleteSession_del(p)
    \/ \E p \in Procs : deleteSession_update(p)
    \/ \E s \in SessionIds : SessionExpire(s)
    \/ \E s \in SessionIds : EncKeyExpire(s)
    \/ \E t \in Tokens : AuthExpire(t)
    \/ \E p \in Procs : Return(p)

Spec == Init /\ [][Next]_vars

\* Every transfer has been initiated, its key stored and its URL finalized:
\* the state the recipient-side operations start from.
ReadySession ==
    [exists |-> TRUE, senderId |-> "alice", recipient |-> "bob",
     status |-> "ready", cloudFileId |-> 1, maxDownloads |-> 1,
     downloadCount |-> 0, expired |-> FALSE, deletedAt |-> FALSE]

InitReady ==
    /\ sessions     = [s \in SessionIds |-> ReadySession]
    /\ encKey       = [s \in SessionIds |-> WrappedKey(1)]
    /\ authSession  = [t \in Tokens |-> NoAuth]
    /\ minted       = [t \in Tokens |-> Null]
    /\ lockCount    = [s \in SessionIds |-> 0]
    /\ lockHasTtl   = [s \in SessionIds |-> FALSE]
    /\ completed    = [s \in SessionIds |-> FALSE]
    /\ adminDeleted = [s \in SessionIds |-> FALSE]
    /\ unlocked     = [s \in SessionIds |-> FALSE]
    /\ cutShort     = [s \in SessionIds |-> FALSE]
    /\ pc           = [p \in Procs |-> "idle"]
    /\ loc          = [p \in Procs |-> NoLoc]
    /\ down         = {}
    /\ keyTtl       = [s \in SessionIds |-> ENC_KEY_TTL]
    /\ keyAge       = [s \in SessionIds |-> 0]
    /\ rateCount    = [k \in RateKeys |-> 0]
    /\ rateHasTtl   = [k \in RateKeys |-> FALSE]
    /\ passed       = [k \in RateKeys |-> {}]

\* Recipients of several ready transfers authenticate, download and complete.
NextBinding ==
    \/ \E p \in Procs, s \in SessionIds : verifyTotp_lock(p, s, "bob", TRUE)
    \/ \E p \in Procs : verifyTotp_find(p)
    \/ \E p \in Procs : verifyTotp_issue(p)
    \/ \E p \in Procs, s \in SessionIds, t \in Tokens : getKey_auth(p, s, t)
    \/ \E p \in Procs : getKey_find(p)
    \/ \E p \in Procs, cloudOk \in BOOLEAN : getKey_enc(p, cloudOk)
    \/ \E p \in Procs : getKey_update(p)
    \/ \E p \in Procs, s \in SessionIds, t \in Tokens : complete_auth(p, s, t)
    \/ \E p \in Procs : complete_find(p)
    \/ \E p \in Procs : complete_del(p)
    \/ \E p \in Procs : complete_update(p)
    \/ \E t \in Tokens : AuthExpire(t)
    \/ \E p \in Procs : Return(p)

SpecBinding == InitReady /\ [][NextBinding]_vars

\* TOTP verification against one ready transfer, with right and wrong codes,
\* the administrator's unlock and the expiry of the lock counter.
OneTransfer == {s \in SessionIds : \A r \in SessionIds : s <= r}

NextLock ==
    \/ \E p \in Procs, s \in OneTransfer, email \in Emails, otpValid \in BOOLEAN :
          verifyTotp_lock(p, s, email, otpValid)
    \/ \E p \in Procs : verifyTotp_find(p)
    \/ \E p \in Procs : verifyTotp_issue(p)
    \/ \E p \in Procs : verifyTotp_incr(p)
    \/ \E p \in Procs : verifyTotp_expire(p)
    \/ \E p \in Procs : verifyTotp_remaining(p)
    \/ \E p \in Procs, s \in OneTransfer : unlockSession_find(p, s)
    \/ \E p \in Procs : unlockSession_del(p)
    \/ \E s \in OneTransfer : LockExpire(s)
    \/ \E s \in OneTransfer : SessionExpire(s)
    \/ \E p \in Procs : Return(p)

SpecLock == InitReady /\ [][NextLock]_vars

\* The recipient of one ready transfer downloads and completes; a request
\* may be cut short between two awaits and be sent again.
NextRetry ==
    \/ \E p \in Procs, s \in OneTransfer : verifyTotp_lock(p, s, "bob", TRUE)
    \/ \E p \in Procs : verifyTotp_find(p)
    \/ \E p \in Procs : verifyTotp_issue(p)
    \/ \E p \in Procs, s \in OneTransfer, t \in Tokens : getKey_auth(p, s, t)
    \/ \E p \in Procs : getKey_find(p)
    \/ \E p \in Procs, cloudOk \in BOOLEAN : getKey_enc(p, cloudOk)
    \/ \E p \in Procs : getKey_update(p)
    \/ \E p \in Procs, s \in OneTransfer, t \in Tokens : complete_auth(p, s, t)
    \/ \E p \in Procs : complete_find(p)
    \/ \E p \in Procs : complete_del(p)
    \/ \E p \in Procs : complete_update(p)
    \/ \E s \in OneTransfer : EncKeyExpire(s)
    \/ Outage("cloud")
    \/ Recover("cloud")
    \/ \E p \in Procs : Return(p)
    \/ \E p \in Procs : Interrupt(p)

SpecRetry == InitReady /\ [][NextRetry]_vars

\* A ready transfer whose download budget has been used up by getKey().
ExhaustedSession ==
    [ReadySession EXCEPT !.downloadCount = ReadySession.maxDownloads,
                         !.status = "downloaded"]

\* One transfer, ready or already downloaded; the other urlTokens name no row.
InitAccess ==
    /\ \E row \in {ReadySession, ExhaustedSession} :
          sessions = [s \in SessionIds |-> IF s \in OneTransfer THEN row ELSE NoSession]
    /\ encKey       = [s \in SessionIds |-> IF s \in OneTransfer THEN WrappedKey(1) ELSE Null]
    /\ authSession  = [t \in Tokens |-> NoAuth]
    /\ minted       = [t \in Tokens |-> Null]
    /\ lockCount    = [s \in SessionIds |-> 0]
    /\ lockHasTtl   = [s \in SessionIds |-> FALSE]
    /\ completed    = [s \in SessionIds |-> FALSE]
    /\ adminDeleted = [s \in SessionIds |-> FALSE]
    /\ unlocked     = [s \in SessionIds |-> FALSE]
    /\ cutShort     = [s \in SessionIds |-> FALSE]
    /\ pc           = [p \in Procs |-> "idle"]
    /\ loc          = [p \in Procs |-> NoLoc]
    /\ down         = {}
    /\ keyTtl       = [s \in SessionIds |-> IF s \in OneTransfer THEN ENC_KEY_TTL ELSE 0]
    /\ keyAge       = [s \in SessionIds |-> IF s \in OneTransfer THEN 0 ELSE NeverStored]
    /\ rateCount    = [k \in RateKeys |-> 0]
    /\ rateHasTtl   = [k \in RateKeys |-> FALSE]
    /\ passed       = [k \in RateKeys |-> {}]

\* The landing page and the TOTP check of the recipient, with right and wrong
\* codes, against a transfer that expires or is deleted by the administrator,
\* and against urlTokens that name no transfer.
NextAccess ==
    \/ \E p \in Procs, s \in SessionIds : getInfo_find(p, s)
    \/ \E p \in Procs : getInfo_lock(p)
    \/ \E p \in Procs, s \in SessionIds, otpValid \in BOOLEAN :
          verifyTotp_lock(p, s, "bob", otpValid)
    \/ \E p \in Procs : verifyTotp_find(p)
    \/ \E p \in Procs : verifyTotp_issue(p)
    \/ \E p \in Procs : verifyTotp_incr(p)
    \/ \E p \in Procs : verifyTotp_expire(p)
    \/ \E p \in Procs : verifyTotp_remaining(p)
    \/ \E p \in Procs, s \in OneTransfer : deleteSession_find(p, s)
    \/ \E p \in Procs : deleteSession_del(p)
    \/ \E p \in Procs : deleteSession_update(p)
    \/ \E s \in OneTransfer : SessionExpire(s)
    \/ \E p \in Procs : Return(p)

SpecAccess == InitAccess /\ [][NextAccess]_vars

\* The sender's side of one transfer: the sender and another registered user
\* call storeKey() and finalizeUrl() in any order and concurrently, and the
\* administrator may delete the session.
NextSender ==
    \/ \E p \in Procs, m \in 1..MaxMaxDownloads :
          Cardinality(Created) < MaxTransfers /\ initiate(p, "alice", "bob", m)
    \/ \E p \in Procs, s \in Created, sender \in Users : storeKey_find(p, s, sender)
    \/ \E p \in Procs : storeKey_set(p)
    \/ \E p \in Procs : storeKey_update(p)
    \/ \E p \in Procs, s \in Created, sender \in Users : finalizeUrl_find(p, s, sender)
    \/ \E p \in Procs : finalizeUrl_update(p)
    \/ \E p \in Procs, s \in Created : deleteSession_find(p, s)
    \/ \E p \in Procs : deleteSession_del(p)
    \/ \E p \in Procs : deleteSession_update(p)
    \/ Outage("mail")
    \/ Recover("mail")
    \/ \E p \in Procs : Return(p)

SpecSender == Init /\ [][NextSender]_vars

\* One ready transfer with a download budget of 1..MaxBudget; the other
\* urlTokens name no row.
InitDownload ==
    /\ \E m \in 1..MaxBudget :
          sessions = [s \in SessionIds |->
                         IF s \in OneTransfer THEN [ReadySession EXCEPT !.maxDownloads = m]
                         ELSE NoSession]
    /\ encKey       = [s \in SessionIds |-> IF s \in OneTransfer THEN WrappedKey(1) ELSE Null]
    /\ authSession  = [t \in Tokens |-> NoAuth]
    /\ minted       = [t \in Tokens |-> Null]
    /\ lockCount    = [s \in SessionIds |-> 0]
    /\ lockHasTtl   = [s \in SessionIds |-> FALSE]
    /\ completed    = [s \in SessionIds |-> FALSE]
    /\ adminDeleted = [s \in SessionIds |-> FALSE]
    /\ unlocked     = [s \in SessionIds |-> FALSE]
    /\ cutShort     = [s \in SessionIds |-> FALSE]
    /\ pc           = [p \in Procs |-> "idle"]
    /\ loc          = [p \in Procs |-> NoLoc]
    /\ down         = {}
    /\ keyTtl       = [s \in SessionIds |-> IF s \in OneTransfer THEN ENC_KEY_TTL ELSE 0]
    /\ keyAge       = [s \in SessionIds |-> IF s \in OneTransfer THEN 0 ELSE NeverStored]
    /\ rateCount    = [k \in RateKeys |-> 0]
    /\ rateHasTtl   = [k \in RateKeys |-> FALSE]
    /\ passed       = [k \in RateKeys |-> {}]

\* The recipient authenticates and asks for the key, several times and
\* concurrently, also under a urlToken the token was not minted for, while
\* the session expires or is deleted, the cached key expires and the signed
\* URL request may fail.
NextDownload ==
    \/ \E p \in Procs, s \in OneTransfer : verifyTotp_lock(p, s, "bob", TRUE)
    \/ \E p \in Procs : verifyTotp_find(p)
    \/ \E p \in Procs : verifyTotp_issue(p)
    \/ \E p \in Procs, s \in SessionIds, t \in Tokens : getKey_auth(p, s, t)
    \/ \E p \in Procs : getKey_find(p)
    \/ \E p \in Procs, cloudOk \in BOOLEAN : getKey_enc(p, cloudOk)
    \/ \E p \in Procs : getKey_update(p)
    \/ \E p \in Procs, s \in OneTransfer : deleteSession_find(p, s)
    \/ \E p \in Procs : deleteSession_del(p)
    \/ \E p \in Procs : deleteSession_update(p)
    \/ \E s \in OneTransfer : SessionExpire(s)
    \/ \E s \in OneTransfer : EncKeyExpire(s)
    \/ \E p \in Procs : Return(p)

SpecDownload == InitDownload /\ [][NextDownload]_vars

\* ------------------------------------------------- requests one at a time
\* The whole life of one transfer, handled by one request at a time, while
\* the audit table comes and goes.
OneProc == {p \in Procs : \A q \in Procs : p <= q}

NextAudit ==
    \/ \E p \in OneProc, s \in OneTransfer, m \in 1..MaxMaxDownloads :
          ~sessions[s].exists /\ initiate(p, "alice", "bob", m)
    \/ \E p \in OneProc, s \in Created : storeKey_find(p, s, "alice")
    \/ \E p \in OneProc : storeKey_set(p)
    \/ \E p \in OneProc : storeKey_update(p)
    \/ \E p \in OneProc, s \in Created : finalizeUrl_find(p, s, "alice")
    \/ \E p \in OneProc : finalizeUrl_update(p)
    \/ \E p \in OneProc, s \in Created : getInfo_find(p, s)
    \/ \E p \in OneProc : getInfo_lock(p)
    \/ \E p \in OneProc, s \in Created, otpValid \in BOOLEAN :
          verifyTotp_lock(p, s, "bob", otpValid)
    \/ \E p \in OneProc : verifyTotp_find(p)
    \/ \E p \in OneProc : verifyTotp_issue(p)
    \/ \E p \in OneProc : verifyTotp_incr(p)
    \/ \E p \in OneProc : verifyTotp_expire(p)
    \/ \E p \in OneProc : verifyTotp_remaining(p)
    \/ \E p \in OneProc, s \in Created, t \in Tokens : getKey_auth(p, s, t)
    \/ \E p \in OneProc : getKey_find(p)
    \/ \E p \in OneProc : getKey_enc(p, TRUE)
    \/ \E p \in OneProc : getKey_update(p)
    \/ \E p \in OneProc, s \in Created, t \in Tokens : complete_auth(p, s, t)
    \/ \E p \in OneProc : complete_find(p)
    \/ \E p \in OneProc : complete_del(p)
    \/ \E p \in OneProc : complete_update(p)
    \/ \E p \in OneProc, s \in Created : deleteSession_find(p, s)
    \/ \E p \in OneProc : deleteSession_del(p)
    \/ \E p \in OneProc : deleteSession_update(p)
    \/ \E p \in OneProc, s \in Created : unlockSession_find(p, s)
    \/ \E p \in OneProc : unlockSession_del(p)
    \/ Outage("audit")
    \/ Recover("audit")
    \/ \E p \in OneProc : Return(p)

SpecAudit == Init /\ [][NextAudit]_vars

\* ------------------------------------------------ the clock of the key cache
\* One transfer from initiate to getKey, handled one request at a time,
\* while the clock of Redis runs.
NextKeyTtl ==
    \/ \E p \in OneProc, s \in OneTransfer, m \in 1..MaxMaxDownloads :
          ~sessions[s].exists /\ initiate(p, "alice", "bob", m)
    \/ \E p \in OneProc, s \in Created : storeKey_find(p, s, "alice")
    \/ \E p \in OneProc : storeKey_set(p)
    \/ \E p \in OneProc : storeKey_update(p)
    \/ \E p \in OneProc, s \in Created : finalizeUrl_find(p, s, "alice")
    \/ \E p \in OneProc : finalizeUrl_update(p)
    \/ \E p \in OneProc, s \in Created : verifyTotp_lock(p, s, "bob", TRUE)
    \/ \E p \in OneProc : verifyTotp_find(p)
    \/ \E p \in OneProc : verifyTotp_issue(p)
    \/ \E p \in OneProc, s \in Created, t \in Tokens : getKey_auth(p, s, t)
    \/ \E p \in OneProc : getKey_find(p)
    \/ \E p \in OneProc : getKey_enc(p, TRUE)
    \/ \E p \in OneProc : getKey_update(p)
    \/ Tick
    \/ \E p \in OneProc : Return(p)

SpecKeyTtl == Init /\ [][NextKeyTtl]_vars

\* ------------------------------------------- one download, start to end
\* One transfer with a budget of one download: the sender's three calls,
\* then getInfo, verifyTotp with right and wrong codes and getKey, one
\* request at a time, nothing expiring.
NextHappy ==
    \/ \E p \in OneProc, s \in OneTransfer :
          ~sessions[s].exists /\ initiate(p, "alice", "bob", 1)
    \/ \E p \in OneProc, s \in Created : storeKey_find(p, s, "alice")
    \/ \E p \in OneProc : storeKey_set(p)
    \/ \E p \in OneProc : storeKey_update(p)
    \/ \E p \in OneProc, s \in Created : finalizeUrl_find(p, s, "alice")
    \/ \E p \in OneProc : finalizeUrl_update(p)
    \/ \E p \in OneProc, s \in Created : getInfo_find(p, s)
    \/ \E p \in OneProc : getInfo_lock(p)
    \/ \E p \in OneProc, s \in Created, otpValid \in BOOLEAN :
          verifyTotp_lock(p, s, "bob", otpValid)
    \/ \E p \in OneProc : verifyTotp_find(p)
    \/ \E p \in OneProc : verifyTotp_issue(p)
    \/ \E p \in OneProc : verifyTotp_incr(p)
    \/ \E p \in OneProc : verifyTotp_expire(p)
    \/ \E p \in OneProc : verifyTotp_remaining(p)
    \/ \E p \in OneProc, s \in Created, t \in Tokens : getKey_auth(p, s, t)
    \/ \E p \in OneProc : getKey_find(p)
    \/ \E p \in OneProc : getKey_enc(p, TRUE)
    \/ \E p \in OneProc : getKey_update(p)
    \/ \E p \in OneProc : Return(p)

SpecHappy == Init /\ [][NextHappy]_vars

\* ------------------------------------------------ a transfer that expires
\* The sender's calls on one transfer, the landing page, the
\* administrator's delete and the passing of expiresAt, in any order.
NextExpired ==
    \/ \E p \in Procs, s \in OneTransfer, m \in 1..MaxMaxDownloads :
          ~sessions[s].exists /\ initiate(p, "alice", "bob", m)
    \/ \E p \in Procs, s \in Created : storeKey_find(p, s, "alice")
    \/ \E p \in Procs : storeKey_set(p)
    \/ \E p \in Procs : storeKey_update(p)
    \/ \E p \in Procs, s \in Created : finalizeUrl_find(p, s, "alice")
    \/ \E p \in Procs : finalizeUrl_update(p)
    \/ \E p \in Procs, s \in Created : getInfo_find(p, s)
    \/ \E p \in Procs : getInfo_lock(p)
    \/ \E p \in Procs, s \in Created : deleteSession_find(p, s)
    \/ \E p \in Procs : deleteSession_del(p)
    \/ \E p \in Procs : deleteSession_update(p)
    \/ \E s \in Created : SessionExpire(s)
    \/ \E p \in Procs : Return(p)

SpecExpired == Init /\ [][NextExpired]_vars

\* --------------------------------------------------- starting transfers
\* Senders start transfers to any address: a user with a key, an account
\* without one, or nobody.
NextInitiate ==
    \/ \E p \in Procs, sender \in Users, recipient \in Recipients,
          m \in 1..MaxMaxDownloads : initiate(p, sender, recipient, m)
    \/ \E p \in Procs, s \in Created : getInfo_find(p, s)
    \/ \E p \in Procs : getInfo_lock(p)
    \/ \E p \in Procs : Return(p)

SpecInitiate == Init /\ [][NextInitiate]_vars

\* ------------------------------------------- counters and their time to live
\* Failed verifyTotp requests on one ready transfer and requests through
\* the general rate limiter, any of which may be cut short between two
\* commands.
NextCounters ==
    \/ \E p \in Procs, s \in OneTransfer : verifyTotp_lock(p, s, "bob", FALSE)
    \/ \E p \in Procs : verifyTotp_find(p)
    \/ \E p \in Procs : verifyTotp_incr(p)
    \/ \E p \in Procs : verifyTotp_expire(p)
    \/ \E p \in Procs : verifyTotp_remaining(p)
    \/ \E p \in Procs, isAuth \in BOOLEAN : rate_incr(p, <<"a">>, isAuth)
    \/ \E p \in Procs : rate_expire(p)
    \/ \E p \in Procs : rate_check(p)
    \/ \E p \in Procs : Interrupt(p)
    \/ \E p \in Procs : Return(p)

SpecCounters == InitReady /\ [][NextCounters]_vars

\* ------------------------------------------------------- the rate limiters
NextRate ==
    \/ \E p \in Procs, ip \in Ips, isAuth \in BOOLEAN : rate_incr(p, ip, isAuth)
    \/ \E p \in Procs : rate_expire(p)
    \/ \E p \in Procs : rate_check(p)
    \/ \E p \in Procs, ip \in Ips : login_incr(p, ip)
    \/ \E p \in Procs : login_expire(p)
    \/ \E p \in Procs : login_check(p)
    \/ \E key \in RateKeys : RateExpire(key)
    \/ \E p \in Procs : Return(p)

SpecRate == Init /\ [][NextRate]_vars

\* ------------------------------------------------------------------ claims
Done(p, op) == pc[p] = "done" /\ loc[p].op = op

\* C1 (zero-retention): once complete() has returned success for a urlToken,
\* its enc_key entry is absent, and every getKey() invoked afterwards fails
\* without a key: with NotFound, or with Unauthorized when the auth token
\* has itself expired in the meantime.
C1_ZeroRetention ==
    /\ \A s \in SessionIds : completed[s] => encKey[s] = Null
    /\ \A p \in Procs :
          Done(p, "getKey") /\ loc[p].afterComplete
              => loc[p].result \in {"NotFound", "Unauthorized"} /\ loc[p].key = Null

\* C2 (download budget): downloadCount never exceeds maxDownloads.
C2_DownloadBudget ==
    \A s \in SessionIds : sessions[s].downloadCount <= sessions[s].maxDownloads

\* C3: after complete() has returned success nothing produces or stores the
\* wrapped key again: no getKey() returns it from then on, not even one
\* that was in flight, and no storeKey() leaves an enc_key entry behind.
C3_NoKeyAfterComplete ==
    /\ \A p \in Procs :
          Done(p, "getKey") /\ loc[p].result = "ok" => ~loc[p].releasedAfterComplete
    /\ \A s \in SessionIds :
          completed[s] => encKey[s] = Null

\* The step in which unlockSession() deletes the counter of s.
UnlockStep(s) ==
    \E p \in Procs : /\ pc[p] = "unlockSession_del" /\ loc[p].urlToken = s
                     /\ pc'[p] = "done"

\* The step in which the TTL of the counter of s elapses.
LockTtlStep(s) == lockHasTtl[s] /\ lockCount'[s] = 0 /\ UNCHANGED pc

\* A verifyTotp() invoked while the counter is at the limit returns Locked
\* and issues no auth session, whatever code it carries.
LockedRejects ==
    \A p \in Procs :
        loc[p].op = "verifyTotp" /\ loc[p].lockedAtCall
            => pc[p] = "done" /\ loc[p].result = "Locked" /\ loc[p].authToken = Null

C5_TokenBinding ==
    /\ [](\A p \in Procs :
             loc[p].op \in {"getKey", "complete"}
             /\ minted[loc[p].authToken] # loc[p].urlToken
                 => /\ pc[p] = "done" /\ loc[p].result = "Unauthorized"
                    /\ loc[p].key = Null)
    /\ [][\A p \in Procs :
             pc[p] = "idle" /\ loc'[p].op \in {"getKey", "complete"}
             /\ minted[loc'[p].authToken] # loc'[p].urlToken
                 => UNCHANGED <<sessions, encKey>>]_vars

\* A live token minted for one transfer has been presented to getKey() and
\* to complete() of another one, and both were refused.
C5_Witness ==
    \E p, q \in Procs :
        /\ Done(p, "getKey") /\ Done(q, "complete")
        /\ \A r \in {p, q} :
              /\ minted[loc[r].authToken] \in SessionIds \ {loc[r].urlToken}
              /\ authSession[loc[r].authToken] # NoAuth
              /\ loc[r].result = "Unauthorized"
              /\ sessions[loc[r].urlToken] = ReadySession
              /\ encKey[loc[r].urlToken] # Null

\* C6: the administrator's unlock deletes the counter (value and TTL), and a
\* verifyTotp() invoked afterwards, while the urlToken is not locked again,
\* with the right code for an available session succeeds and mints an auth
\* session bound to the urlToken.
C6_UnlockReopens ==
    /\ [](\A p \in Procs :
             ( /\ Done(p, "verifyTotp") /\ loc[p].afterUnlock /\ ~loc[p].lockedAtCall
               /\ loc[p].otpValid /\ loc[p].email \in Users
               /\ loc[p].result # "NotFound" )
                 => /\ loc[p].result = "ok"
                    /\ loc[p].authToken \in Tokens
                    /\ minted[loc[p].authToken] = loc[p].urlToken)
    /\ [][\A s \in SessionIds :
             UnlockStep(s) => lockCount'[s] = 0 /\ ~lockHasTtl'[s]]_vars

\* A urlToken was locked, the administrator unlocked it, and a verifyTotp()
\* with the right code then succeeded.
C6_Witness ==
    \E p \in Procs :
        /\ Done(p, "verifyTotp") /\ loc[p].afterUnlock
        /\ loc[p].otpValid /\ loc[p].result = "ok"
        /\ minted[loc[p].authToken] = loc[p].urlToken

\* C7 (idempotent deletion): a complete() that finds the enc_key entry
\* already absent, as on the retry of a complete() that was cut short after
\* its delete, still succeeds; the delete step of complete() leaves the
\* entry absent and no other step of complete() touches it.
C7_IdempotentDeletion ==
    /\ [](\A p \in Procs :
             Done(p, "complete") /\ loc[p].keyWasAbsent => loc[p].result = "ok")
    /\ [][\A p \in Procs :
             /\ pc[p] = "complete_del" /\ pc'[p] \notin {pc[p], "idle"}
                   => pc'[p] = "complete_update" /\ encKey'[loc[p].urlToken] = Null
             /\ pc[p] \in {"complete_find", "complete_update"} /\ pc'[p] # pc[p]
                   => encKey'[loc[p].urlToken] = encKey[loc[p].urlToken]]_vars

\* A complete() was cut short between delete and update; its retry found
\* the key absent and succeeded.
C7_Witness ==
    \E p \in Procs :
        /\ Done(p, "complete") /\ loc[p].afterCutShort /\ loc[p].keyWasAbsent
        /\ loc[p].result = "ok"
        /\ sessions[loc[p].urlToken].deletedAt
        /\ encKey[loc[p].urlToken] = Null

\* C8: once deletedAt is set no later getKey() returns the key, and after
\* the administrator's deleteSession() has returned the enc_key entry is
\* absent and getKey() fails with NotFound (or Unauthorized, when the auth
\* token is no longer live).
C8_DeletedNoRelease ==
    /\ \A p \in Procs :
          Done(p, "getKey") /\ loc[p].afterDeleted
              => loc[p].result # "ok" /\ loc[p].key = Null
    /\ \A p \in Procs :
          Done(p, "getKey") /\ loc[p].afterAdminDelete
              => loc[p].result \in {"NotFound", "Unauthorized"}
    /\ \A s \in SessionIds : adminDeleted[s] => encKey[s] = Null

\* C9: status 'deleted' is terminal: a row with deletedAt set and status
\* 'deleted' keeps that status and its downloadCount in every later step.
C9_DeletedTerminal ==
    [][\A s \in SessionIds :
          sessions[s].deletedAt /\ sessions[s].status = "deleted"
              => /\ sessions'[s].status = "deleted"
                 /\ sessions'[s].downloadCount = sessions[s].downloadCount]_vars

C11_GetInfoOrder ==
    [][\A p \in Procs :
          /\ pc[p] = "idle" /\ loc'[p].op = "getInfo"
                => LET row == sessions[loc'[p].urlToken]
                   IN  IF ~row.exists \/ row.deletedAt
                       THEN pc'[p] = "done" /\ loc'[p].result = "NotFound"
                       ELSE IF row.expired \/ row.downloadCount >= row.maxDownloads
                       THEN pc'[p] = "done" /\ loc'[p].result = "Gone"
                       ELSE pc'[p] = "getInfo_lock"
          /\ pc[p] = "getInfo_lock" /\ pc'[p] = "done"
                => loc'[p].result =
                      IF lockCount[loc[p].urlToken] >= LOCK_LIMIT THEN "Locked" ELSE "ok"]_vars

\* getInfo() answered Gone for an expired, locked session and then, once
\* the session was deleted as well, NotFound.
C11_Witness ==
    \E p, q \in Procs :
        /\ Done(p, "getInfo") /\ loc[p].result = "NotFound"
        /\ Done(q, "getInfo") /\ loc[q].result = "Gone"
        /\ loc[p].urlToken = loc[q].urlToken
        /\ sessions[loc[p].urlToken].deletedAt
        /\ sessions[loc[p].urlToken].expired
        /\ loc[p].lockedAtCall /\ loc[q].lockedAtCall /\ ~loc[q].afterDeleted

\* C12: verifyTotp() checks the session before the lock counter: invoked
\* for a urlToken whose session is missing or deleted and whose counter is
\* at the limit, it answers NotFound, not Locked.
C12_SessionBeforeLock ==
    \A p \in Procs :
        ( /\ Done(p, "verifyTotp") /\ loc[p].lockedAtCall
          /\ (loc[p].afterDeleted \/ ~sessions[loc[p].urlToken].exists) )
            => loc[p].result = "NotFound"

\* C13: when the session check of verifyTotp() finds an existing, undeleted
\* session expired or with its download budget used up, the call ends there
\* with Gone, whatever the code is, and that step neither issues an auth
\* session nor touches the lock counter.
C13_GoneBeforeCode ==
    [][\A p \in Procs :
          LET row == sessions[loc[p].urlToken]
          IN  ( /\ pc[p] = "verifyTotp_find" /\ pc'[p] # pc[p]
                /\ row.exists /\ ~row.deletedAt
                /\ (row.expired \/ row.downloadCount >= row.maxDownloads) )
                  => /\ pc'[p] = "done" /\ loc'[p].result = "Gone"
                     /\ authSession' = authSession /\ lockCount' = lockCount]_vars

\* The step in which a failed code check increments the counter of s.
IncrStep(s) ==
    \E p \in Procs : /\ pc[p] = "verifyTotp_incr" /\ loc[p].urlToken = s
                     /\ pc'[p] # pc[p]

\* Every verifyTotp() that failed on the code check has made its increment.
FailureCounted ==
    \A p \in Procs :
        Done(p, "verifyTotp") /\ loc[p].result = "AuthFailed" => loc[p].count >= 1

IssueStep(p) == pc[p] = "verifyTotp_issue" /\ pc'[p] = "done"

\* C15: a verifyTotp() invoked while the urlToken is not locked, with the
\* right code of a registered user for an available session, succeeds and
\* issues an auth session bound to that urlToken, and the step that issues
\* it leaves the lock counter and its TTL as they were.
C15_SuccessKeepsCounter ==
    /\ [](\A p \in Procs :
             ( /\ Done(p, "verifyTotp") /\ ~loc[p].lockedAtCall
               /\ loc[p].otpValid /\ loc[p].email \in Users
               /\ loc[p].result # "NotFound" )
                 => /\ loc[p].result = "ok"
                    /\ minted[loc[p].authToken] = loc[p].urlToken
                    /\ loc[p].count = 0)
    /\ [][\A p \in Procs :
             IssueStep(p)
                 => /\ lockCount' = lockCount /\ lockHasTtl' = lockHasTtl
                    /\ authSession'[loc'[p].authToken] =
                          [userId |-> loc[p].userId, urlToken |-> loc[p].urlToken]]_vars

\* Two failures, then a success, then three more failures, the last of
\* which reached the limit: the urlToken is locked.
C15_Witness ==
    \E p, q \in Procs :
        /\ Done(p, "verifyTotp") /\ loc[p].result = "ok" /\ loc[p].failedBefore = 2
        /\ Done(q, "verifyTotp") /\ loc[q].result = "AuthFailed"
        /\ loc[q].urlToken = loc[p].urlToken /\ loc[q].count = LOCK_LIMIT
        /\ lockCount[loc[p].urlToken] = LOCK_LIMIT
        /\ ~unlocked[loc[p].urlToken]

\* C16: a verifyTotp() invoked while the counter is at or over the limit
\* ends in its first step with Locked, whatever e-mail and code it carries:
\* it gets no auth token, makes no increment, and leaves the counter and
\* the auth sessions as they were.
C16_LockedIgnoresCode ==
    [][\A p \in Procs :
          ( /\ pc[p] = "idle" /\ loc'[p].op = "verifyTotp"
            /\ lockCount[loc'[p].urlToken] >= LOCK_LIMIT )
              => /\ pc'[p] = "done" /\ loc'[p].result = "Locked"
                 /\ loc'[p].authToken = Null /\ loc'[p].count = 0
                 /\ loc'[p].remaining = 0 /\ ~loc'[p].authFailEvent
                 /\ lockCount' = lockCount /\ lockHasTtl' = lockHasTtl
                 /\ authSession' = authSession /\ minted' = minted]_vars

\* A right code and a wrong code against the same locked urlToken were
\* both answered Locked, and the counter is where it was.
C16_Witness ==
    \E p, q \in Procs :
        /\ Done(p, "verifyTotp") /\ loc[p].lockedAtCall /\ loc[p].result = "Locked"
        /\ Done(q, "verifyTotp") /\ loc[q].lockedAtCall /\ loc[q].result = "Locked"
        /\ loc[p].urlToken = loc[q].urlToken
        /\ loc[p].otpValid /\ loc[p].email \in Users
        /\ ~loc[q].otpValid /\ loc[q].email = loc[p].email
        /\ lockCount[loc[p].urlToken] = LOCK_LIMIT

\* C17: a verifyTotp() that fails on the code check answers AuthFailed with
\* the remaining-attempt count max(0, LOCK_LIMIT - c), c being the counter
\* value its own increment produced.
C17_RemainingFromOwnIncrement ==
    \A p \in Procs :
        Done(p, "verifyTotp") /\ loc[p].count >= 1
            => /\ loc[p].result = "AuthFailed"
               /\ loc[p].remaining =
                     IF LOCK_LIMIT - loc[p].count > 0 THEN LOCK_LIMIT - loc[p].count ELSE 0

\* C18: a verifyTotp() writes an 'auth_fail' audit row exactly when it
\* failed on the code check, and a 'lock' audit row exactly when its own
\* increment took the counter from LOCK_LIMIT - 1 to LOCK_LIMIT: not below
\* the limit, and not for attempts against a urlToken already locked.
C18_LockEventOnCrossing ==
    \A p \in Procs :
        Done(p, "verifyTotp")
            => /\ loc[p].authFailEvent <=> (loc[p].result = "AuthFailed")
               /\ loc[p].lockEvent <=>
                     (loc[p].result = "AuthFailed" /\ loc[p].count = LOCK_LIMIT)

\* C19: storeKey() goes on to write only for the original sender of a
\* session in status 'initiated': for another caller it ends with Forbidden
\* and for the sender of a session in any other status with Conflict, and
\* in both cases it has written neither the enc_key entry nor cloudFileId.
C19_StoreKeyGuards ==
    [][\A p \in Procs :
          pc[p] = "idle" /\ loc'[p].op = "storeKey" /\ sessions[loc'[p].urlToken].exists
              => LET row == sessions[loc'[p].urlToken]
                 IN  IF row.senderId # loc'[p].senderId
                     THEN /\ pc'[p] = "done" /\ loc'[p].result = "Forbidden"
                          /\ UNCHANGED <<sessions, encKey>>
                     ELSE IF row.status # "initiated"
                     THEN /\ pc'[p] = "done" /\ loc'[p].result = "Conflict"
                          /\ UNCHANGED <<sessions, encKey>>
                     ELSE pc'[p] = "storeKey_set"]_vars

\* The step in which finalizeUrl() writes status 'ready'.
FinalizeStep(p) == pc[p] = "finalizeUrl_update" /\ pc'[p] = "done"

\* C20: finalizeUrl() of the sender goes on only for a session in status
\* 'initiated' with a cloudFileId, and otherwise ends with Conflict and the
\* status as it was; its write takes the session from 'initiated' to
\* 'ready', so it succeeds neither twice nor before storeKey().
C20_FinalizeOnce ==
    [][\A p \in Procs :
          /\ ( /\ pc[p] = "idle" /\ loc'[p].op = "finalizeUrl"
               /\ sessions[loc'[p].urlToken].exists
               /\ sessions[loc'[p].urlToken].senderId = loc'[p].senderId )
                => LET row == sessions[loc'[p].urlToken]
                   IN  IF row.status # "initiated" \/ row.cloudFileId = Null
                       THEN /\ pc'[p] = "done" /\ loc'[p].result = "Conflict"
                            /\ UNCHANGED sessions
                       ELSE pc'[p] = "finalizeUrl_update"
          /\ FinalizeStep(p)
                => /\ sessions[loc[p].urlToken].status = "initiated"
                   /\ sessions[loc[p].urlToken].cloudFileId # Null
                   /\ sessions'[loc[p].urlToken].status = "ready"]_vars

\* The step in which getKey() updates the session row.
GetKeyStep(p) == pc[p] = "getKey_update" /\ pc'[p] = "done"

\* C21: the update of a successful getKey() adds exactly one to
\* downloadCount and writes status 'downloaded' if and only if the new
\* downloadCount equals maxDownloads, otherwise 'ready'; so an undeleted
\* session whose downloadCount equals maxDownloads has status 'downloaded'.
C21_StatusTracksBudget ==
    /\ [](\A s \in SessionIds :
             ( /\ sessions[s].exists /\ ~sessions[s].deletedAt
               /\ sessions[s].downloadCount = sessions[s].maxDownloads )
                 => sessions[s].status = "downloaded")
    /\ [][\A p \in Procs :
             GetKeyStep(p)
                 => LET old == sessions[loc[p].urlToken]
                        new == sessions'[loc[p].urlToken]
                    IN  /\ new.downloadCount = old.downloadCount + 1
                        /\ new.status = IF new.downloadCount = new.maxDownloads
                                        THEN "downloaded" ELSE "ready"]_vars

\* C22: a getKey() that fails, at whichever check, has changed nothing in
\* the session rows: the only step of getKey() that writes a row is its
\* last one, which ends in success; a key missing from the cache is
\* answered NotFound in a step that leaves the rows as they are.
C22_FailedGetKeyFrame ==
    [][\A p \in Procs :
          /\ (loc'[p].op = "getKey" /\ pc'[p] # pc[p])
                => IF GetKeyStep(p) THEN loc'[p].result = "ok"
                   ELSE sessions' = sessions /\ encKey' = encKey
          /\ (pc[p] = "getKey_enc" /\ pc'[p] # pc[p] /\ encKey[loc[p].urlToken] = Null)
                => pc'[p] = "done" /\ loc'[p].result = "NotFound"]_vars

\* A getKey() for an available session with budget left was answered
\* NotFound because the cached key was gone, and the budget is untouched.
C22_Witness ==
    \E p \in Procs :
        /\ Done(p, "getKey") /\ loc[p].result = "NotFound"
        /\ LET row == sessions[loc[p].urlToken]
           IN  /\ row.exists /\ ~row.deletedAt /\ ~row.expired
               /\ row.cloudFileId # Null /\ row.downloadCount = 0 /\ row.status = "ready"
        /\ encKey[loc[p].urlToken] = Null

\* C23: a complete() whose storage deletion failed goes on all the same:
\* its delete step has removed the enc_key entry and leads to the update,
\* and its update sets deletedAt and status 'deleted' and ends in success.
C23_CompleteDespiteCloud ==
    [][\A p \in Procs :
          /\ (pc[p] = "complete_del" /\ loc'[p].cloudFailed /\ pc'[p] # "idle")
                => pc'[p] = "complete_update" /\ encKey'[loc[p].urlToken] = Null
          /\ (pc[p] = "complete_update" /\ loc[p].cloudFailed /\ pc'[p] \notin {pc[p], "idle"})
                => /\ pc'[p] = "done" /\ loc'[p].result = "ok"
                   /\ sessions'[loc[p].urlToken].deletedAt
                   /\ sessions'[loc[p].urlToken].status = "deleted"]_vars

\* A complete() has succeeded although the storage deletion failed.
C23_Witness ==
    \E p \in Procs :
        /\ Done(p, "complete") /\ loc[p].cloudFailed /\ loc[p].result = "ok"
        /\ sessions[loc[p].urlToken].deletedAt
        /\ sessions[loc[p].urlToken].status = "deleted"
        /\ encKey[loc[p].urlToken] = Null

\* C24: when sendDownloadLink fails, the update step of finalizeUrl()
\* still writes 'ready' and ends in success, with emailSent false; when it
\* does not fail, emailSent is true.
C24_ReadyDespiteMail ==
    [][\A p \in Procs :
          FinalizeStep(p)
              => /\ loc'[p].result = "ok"
                 /\ sessions'[loc[p].urlToken].status = "ready"
                 /\ loc'[p].emailSent = ("mail" \notin down)]_vars

\* finalizeUrl() has succeeded without the e-mail and the session is ready.
C24_Witness ==
    \E p \in Procs :
        /\ Done(p, "finalizeUrl") /\ loc[p].result = "ok" /\ ~loc[p].emailSent
        /\ sessions[loc[p].urlToken].status = "ready"


\* C25: a failing audit write never decides a request.  A request of
\* initiate, storeKey, getInfo, getKey, complete, verifyTotp, admin
\* deleteSession or unlockSession whose audit row could not be written ends
\* with the result it has when the row is written: "ok" where the row
\* records a success, "Locked" or "AuthFailed" where verifyTotp records a
\* refusal; and the effect it reports is in place.  (finalizeUrl writes no
\* audit row.)
C25_AuditNeverDecides ==
    \A p \in Procs :
        (pc[p] = "done" /\ loc[p].auditFailed) =>
            LET l == loc[p]
                s == l.urlToken
            IN  /\ l.op # "finalizeUrl"
                /\ l.op # "verifyTotp" => l.result = "ok"
                /\ l.op = "verifyTotp" =>
                       l.result = IF l.authToken # Null THEN "ok"
                                  ELSE IF l.authFailEvent THEN "AuthFailed"
                                  ELSE "Locked"
                /\ l.op = "initiate" => sessions[s].exists
                /\ l.op = "storeKey" => encKey[s] # Null /\ sessions[s].cloudFileId # Null
                /\ l.op = "getKey" => l.key # Null /\ sessions[s].downloadCount >= 1
                /\ l.op \in {"complete", "deleteSession"} => sessions[s].deletedAt
                /\ l.op = "unlockSession" => lockCount[s] = 0
                /\ (l.op = "verifyTotp" /\ l.result = "ok") => minted[l.authToken] # Null
                /\ (l.op = "verifyTotp" /\ l.result = "AuthFailed") => lockCount[s] >= l.count

\* A getKey whose dl_success row was lost has released the key and counted
\* the download.
C25_Witness ==
    \E p \in Procs :
        /\ pc[p] = "done" /\ loc[p].auditFailed
        /\ loc[p].op = "getKey" /\ loc[p].result = "ok"
        /\ sessions[loc[p].urlToken].downloadCount = 1

\* C26: the wrapped-key cache entry lives a fixed window from its creation.
\* An entry is gone once ENC_KEY_TTL seconds have passed since the SET that
\* created it, whatever SETs followed, and a getKey that looks for the key
\* after that ends with NotFound.
C26_KeyFixedWindow ==
    [][/\ \A s \in SessionIds : keyAge'[s] >= ENC_KEY_TTL => encKey'[s] = Null
       /\ \A p \in Procs :
             (/\ pc[p] = "getKey_enc" /\ pc'[p] # "getKey_enc"
              /\ keyAge[loc[p].urlToken] >= ENC_KEY_TTL)
             => loc'[p].result = "NotFound"]_vars

\* The request of p leaves a rate limiter, rejected or let through.
CheckStep(p) == pc[p] \in {"rate_check", "login_check"} /\ pc'[p] = "done"

\* The largest limit a request counted under key can be judged against.
MaxLimit(key) ==
    LET ls == (IF \E ip \in Ips : key = RateKey(ip) THEN {LIMIT_UNAUTH, LIMIT_AUTH} ELSE {})
                \cup (IF \E ip \in Ips : key = LoginKey(ip) THEN {LOGIN_LIMIT} ELSE {})
    IN  CHOOSE l \in ls : \A m \in ls : m <= l

\* C27: within one window of a counter, the requests let through hold
\* different counter values, none above the limit the request is judged
\* against, so at most `limit` of them reach the handler; a request is
\* rejected with RateLimited exactly when its counter value exceeds its
\* limit, whatever other requests are in flight, and a rejected request
\* changes nothing else; only the request whose increment returned 1 puts
\* the TTL on the counter.
C27_RateLimit ==
    [][/\ \A p \in Procs :
             CheckStep(p) =>
                /\ loc'[p].result = (IF loc[p].count > loc[p].limit
                                     THEN "RateLimited" ELSE "ok")
                /\ loc'[p].result = "RateLimited" => passed' = passed
                /\ (loc'[p].result = "ok" /\ ~loc[p].staleWindow) =>
                       /\ loc[p].count \notin passed[loc[p].rkey]
                       /\ loc[p].count \in passed'[loc[p].rkey]
                       /\ loc[p].count <= loc[p].limit
       /\ \A key \in RateKeys :
             /\ Cardinality(passed'[key]) <= MaxLimit(key)
             /\ (~rateHasTtl[key] /\ rateHasTtl'[key]) =>
                    \E p \in Procs : /\ pc[p] \in {"rate_expire", "login_expire"}
                                     /\ pc'[p] # pc[p]
                                     /\ loc[p].rkey = key /\ loc[p].count = 1]_vars

\* Two requests of one address, without Authorization, in one window: the
\* first was let through, the second, counted while the first was still in
\* flight, was rejected.
C27_Witness ==
    \E p, q \in Procs :
        /\ p # q /\ pc[p] = "done" /\ pc[q] = "done"
        /\ loc[p].op = "rate" /\ loc[q].op = "rate"
        /\ loc[p].rkey = loc[q].rkey
        /\ loc[p].limit = LIMIT_UNAUTH /\ loc[q].limit = LIMIT_UNAUTH
        /\ loc[p].result = "ok" /\ loc[q].result = "RateLimited"
        /\ ~loc[p].staleWindow /\ ~loc[q].staleWindow
        /\ rateHasTtl[loc[p].rkey]
        /\ passed[loc[p].rkey] = {loc[p].count}

\* The request of p takes a step inside the middleware named op.
MiddlewareStep(p, op) == pc'[p] # pc[p] /\ op \in {loc[p].op, loc'[p].op}

\* The counter stored under key, its TTL and its history are left alone.
CounterUnchanged(key) ==
    /\ rateCount'[key] = rateCount[key]
    /\ rateHasTtl'[key] = rateHasTtl[key]
    /\ passed'[key] = passed[key]

\* C28: the login counter and the general counter of one address are
\* independent.  Every step of loginRateLimitMiddleware for a request
\* from ip leaves rate:{ip} alone and every step of rateLimitMiddleware
\* leaves rate:login:{ip} alone; the value a request is judged by is the
\* increment of its own counter, so the state of the other counter
\* neither rejects nor admits it.
C28_CountersIndependent ==
    [][\A p \in Procs :
          LET ip == IF loc[p].op = "none" THEN loc'[p].ip ELSE loc[p].ip
          IN  /\ MiddlewareStep(p, "login") =>
                    /\ CounterUnchanged(RateKey(ip))
                    /\ pc[p] = "idle" => loc'[p].count = rateCount[LoginKey(ip)] + 1
              /\ MiddlewareStep(p, "rate") =>
                    /\ CounterUnchanged(LoginKey(ip))
                    /\ pc[p] = "idle" => loc'[p].count = rateCount[RateKey(ip)] + 1]_vars

\* The login budget of an address is used up and a login request from it
\* was rejected, while a general request from the same address, the first
\* of its window, was let through.
C28_Witness ==
    \E p, q \in Procs :
        /\ pc[p] = "done" /\ pc[q] = "done"
        /\ loc[p].op = "login" /\ loc[q].op = "rate"
        /\ loc[p].ip = loc[q].ip
        /\ loc[p].result = "RateLimited" /\ loc[q].result = "ok"
        /\ loc[q].count = 1
        /\ rateCount[LoginKey(loc[p].ip)] > LOGIN_LIMIT
        /\ ~loc[p].staleWindow /\ ~loc[q].staleWindow

\* C29: the happy path of a transfer with maxDownloads = 1, one request
\* at a time.  finalizeUrl on the initiated session that has its key and
\* file makes it ready; getInfo on the ready, unlocked session reports one
\* remaining download; a verifyTotp with a wrong code that is at most the
\* third failure ends with AuthFailed and leaves the session unlocked; a
\* verifyTotp with the right code after three failures issues a token for
\* the session; the getKey that reads downloadCount 0 succeeds and leaves
\* downloadCount 1 and status downloaded; a getKey that reads
\* downloadCount 1 ends with Gone, whatever token it holds.
C29_HappyPath ==
    [][\A p \in Procs :
          LET s   == IF loc[p].op = "none" THEN loc'[p].urlToken ELSE loc[p].urlToken
              row == sessions[s]
          IN  /\ (/\ pc[p] = "idle" /\ loc'[p].op = "finalizeUrl"
                  /\ row.status = "initiated" /\ row.cloudFileId # Null
                  /\ encKey[s] # Null)
                 => pc'[p] = "finalizeUrl_update"
              /\ FinalizeStep(p) =>
                    loc'[p].result = "ok" /\ sessions'[s].status = "ready"
              /\ (/\ pc[p] = "getInfo_lock" /\ pc'[p] = "done"
                  /\ row.status = "ready" /\ row.downloadCount = 0
                  /\ lockCount[s] <= 3)
                 => loc'[p].result = "ok" /\ loc'[p].remaining = 1
              /\ (/\ pc[p] = "verifyTotp_remaining" /\ pc'[p] = "done"
                  /\ loc[p].count <= 3)
                 => /\ loc'[p].result = "AuthFailed"
                    /\ ~isLocked(s) /\ lockCount'[s] = loc[p].count
              /\ (/\ pc[p] = "idle" /\ loc'[p].op = "verifyTotp"
                  /\ lockCount[s] = 3)
                 => pc'[p] = "verifyTotp_find"
              /\ (/\ pc[p] = "verifyTotp_find" /\ pc'[p] # pc[p]
                  /\ loc[p].otpValid /\ row.status = "ready")
                 => pc'[p] = "verifyTotp_issue"
              /\ (pc[p] = "verifyTotp_issue" /\ pc'[p] = "done")
                 => /\ loc'[p].result = "ok"
                    /\ authSession'[loc'[p].authToken].urlToken = s
              /\ (/\ pc[p] = "getKey_find" /\ pc'[p] # pc[p]
                  /\ row.status = "ready" /\ row.downloadCount = 0)
                 => pc'[p] = "getKey_enc"
              /\ (pc[p] = "getKey_enc" /\ pc'[p] # pc[p] /\ encKey[s] # Null)
                 => pc'[p] = "getKey_update"
              /\ GetKeyStep(p) =>
                    /\ loc'[p].result = "ok" /\ loc'[p].key # Null
                    /\ sessions'[s].downloadCount = 1
                    /\ sessions'[s].status = "downloaded"
              /\ (/\ pc[p] = "getKey_find" /\ pc'[p] # pc[p]
                  /\ row.downloadCount = 1)
                 => loc'[p].result = "Gone" /\ sessions' = sessions]_vars

\* The end of the scenario: after three failed codes and one right one, a
\* second getKey with the token of the first has ended with Gone; the
\* session counts one download and is downloaded.
C29_Witness ==
    \E p \in Procs :
        LET s == loc[p].urlToken
        IN  /\ Done(p, "getKey") /\ loc[p].result = "Gone"
            /\ authSession[loc[p].authToken].urlToken = s
            /\ lockCount[s] = 3
            /\ sessions[s].maxDownloads = 1
            /\ sessions[s].downloadCount = 1
            /\ sessions[s].status = "downloaded"

\* The request of p starts operation op on a session that has no
\* cloudFileId: storeKey has not gone through for it.
StartsWithoutKey(p, op) ==
    /\ pc[p] = "idle" /\ loc'[p].op = op
    /\ sessions[loc'[p].urlToken].exists
    /\ sessions[loc'[p].urlToken].cloudFileId = Null

\* C30 as stated: a session without a stored key is never ready, no
\* finalizeUrl on it succeeds, and every getInfo called on it after
\* expiresAt ends with Gone.
C30_ExpiredBeforeKey ==
    [][/\ \A s \in SessionIds :
             sessions'[s].cloudFileId = Null => sessions'[s].status # "ready"
       /\ \A p \in Procs :
             /\ StartsWithoutKey(p, "finalizeUrl") =>
                    pc'[p] = "done" /\ loc'[p].result # "ok"
             /\ (StartsWithoutKey(p, "getInfo") /\ sessions[loc'[p].urlToken].expired) =>
                    pc'[p] = "done" /\ loc'[p].result = "Gone"]_vars

\* C30, amended: the same, except that a getInfo called after expiresAt on
\* a session that has been logically deleted ends with NotFound.
C30_ExpiredBeforeKeyUnlessDeleted ==
    [][/\ \A s \in SessionIds :
             sessions'[s].cloudFileId = Null => sessions'[s].status # "ready"
       /\ \A p \in Procs :
             /\ StartsWithoutKey(p, "finalizeUrl") =>
                    pc'[p] = "done" /\ loc'[p].result # "ok"
             /\ (StartsWithoutKey(p, "getInfo") /\ sessions[loc'[p].urlToken].expired) =>
                    /\ pc'[p] = "done"
                    /\ loc'[p].result = IF sessions[loc'[p].urlToken].deletedAt
                                        THEN "NotFound" ELSE "Gone"]_vars

\* After expiresAt of a session whose key was never stored, a finalizeUrl
\* has been refused and a getInfo has ended with Gone.
C30_Witness ==
    \E p, q \in Procs :
        LET s == loc[p].urlToken
        IN  /\ Done(p, "getInfo") /\ loc[p].result = "Gone"
            /\ Done(q, "finalizeUrl") /\ loc[q].result = "BadRequest"
            /\ loc[q].urlToken = s
            /\ sessions[s].expired /\ ~sessions[s].deletedAt
            /\ sessions[s].status = "initiated"
            /\ sessions[s].cloudFileId = Null /\ keyAge[s] = NeverStored

\* The request of p is an initiate that has just ended.
InitiateStep(p) == pc[p] = "idle" /\ pc'[p] = "done" /\ loc'[p].op = "initiate"

\* C31: initiate answers alike for a recipient without an account and for
\* one with an account but no usable key: the step creates no session and
\* asks for no upload handle, its error is NotFound, and the responses of
\* two such requests are the same document.
C31_NoEnumeration ==
    [][\A p \in Procs :
          (InitiateStep(p) /\ loc'[p].email \in {NoUser} \cup Keyless /\ loc'[p].result # "BadRequest")
          => /\ loc'[p].result = "NotFound"
             /\ sessions' = sessions
             /\ ~loc'[p].uploadRequested
             /\ \A q \in Procs :
                   (/\ pc[q] = "done" /\ loc[q].op = "initiate"
                    /\ loc[q].email \in {NoUser} \cup Keyless
                    /\ loc[q].result # "BadRequest")
                   => errorResponse(loc'[p]) = errorResponse(loc[q])]_vars

\* One initiate to an address without an account and one to an account
\* without a key have both ended, for different reasons inside the service.
C31_Witness ==
    \E p, q \in Procs :
        /\ Done(p, "initiate") /\ Done(q, "initiate")
        /\ loc[p].email = NoUser /\ loc[q].email \in Keyless
        /\ loc[p].detail # loc[q].detail
        /\ loc[p].result = "NotFound" /\ loc[q].result = "NotFound"

\* C32: the wrapped key never reaches the durable store.  No column of a
\* session row that takes a value from a request and no field of the
\* metadata of an audit row holds a wrapped key; the only place a wrapped
\* key is kept is the cache entry.
C32_KeyOnlyInCache ==
    /\ \A s \in SessionIds :
          /\ sessions[s].cloudFileId \notin WrappedKeys
          /\ sessions[s].maxDownloads \notin WrappedKeys
          /\ sessions[s].downloadCount \notin WrappedKeys
          /\ encKey[s] \in WrappedKeys \cup {Null}
    /\ \A p \in Procs :
          \A f \in DOMAIN loc[p].metadata \ {"step"} : loc[p].metadata[f] \notin WrappedKeys

\* A storeKey has succeeded: its key is in the cache, its file id in the
\* row and in the audit row.
C32_Witness ==
    \E p \in Procs :
        LET s == loc[p].urlToken
        IN  /\ Done(p, "storeKey") /\ loc[p].result = "ok"
            /\ encKey[s] = loc[p].encKeyB64 /\ encKey[s] \in WrappedKeys
            /\ sessions[s].cloudFileId = loc[p].cloudFileId
            /\ loc[p].metadata.step = "key_stored"
            /\ loc[p].metadata.cloudFileId = loc[p].cloudFileId

\* C33: a session row, once created, is never removed.  No step takes a
\* row away or changes who sent it and to whom; complete and the
\* administrator's delete leave the row in place with deletedAt set and
\* status deleted.
C33_RowsOnlyAdded ==
    [][/\ \A s \in SessionIds :
             sessions[s].exists =>
                /\ sessions'[s].exists
                /\ sessions'[s].senderId = sessions[s].senderId
                /\ sessions'[s].recipient = sessions[s].recipient
       /\ \A p \in Procs :
             (pc[p] \in {"complete_update", "deleteSession_update"} /\ pc'[p] = "done")
             => /\ sessions'[loc[p].urlToken].exists
                /\ sessions'[loc[p].urlToken].deletedAt
                /\ sessions'[loc[p].urlToken].status = "deleted"]_vars

\* A session that the recipient completed and the administrator deleted
\* is still a row.
C33_Witness ==
    \E s \in SessionIds :
        /\ sessions[s].exists /\ sessions[s].deletedAt /\ sessions[s].status = "deleted"
        /\ completed[s] /\ adminDeleted[s]

\* C34: an auth session for a urlToken is only ever issued to the
\* recipient of the session: the userId of every auth session is the user
\* the session row names as its recipient.
C34_OnlyRecipient ==
    \A t \in Tokens :
        authSession[t] # NoAuth =>
            authSession[t].userId = sessions[authSession[t].urlToken].recipient

\* C35: once the lock counter of a urlToken has reached the threshold, no
\* verifyTotp has its code checked and none issues an auth session,
\* however the requests interleave: the step that checks the code and the
\* step that issues the token are taken only while the counter is below
\* LOCK_LIMIT.
C35_NoCheckOnceLocked ==
    [][\A p \in Procs :
          (\/ /\ pc[p] = "verifyTotp_find"
              /\ pc'[p] \in {"verifyTotp_issue", "verifyTotp_incr"}
              /\ loc[p].email \in Users
           \/ pc[p] = "verifyTotp_issue" /\ pc'[p] = "done")
          => lockCount[loc[p].urlToken] < LOCK_LIMIT]_vars

\* The changes of status the lifecycle allows.
StatusMoves ==
    {<<"initiated", "ready">>, <<"ready", "ready">>, <<"ready", "downloaded">>,
     <<"downloaded", "deleted">>, <<"initiated", "deleted">>, <<"ready", "deleted">>,
     <<"deleted", "deleted">>}

\* C36: the status of a session only moves initiated -> ready ->
\* downloaded -> deleted (or stays ready, or goes to deleted from
\* anywhere); only finalizeUrl takes a session from initiated to ready;
\* and no verifyTotp issues a token, and no getKey releases the wrapped
\* key, for a session whose status is still initiated.
C36_StatusLifecycle ==
    [][/\ \A s \in SessionIds :
             (sessions[s].exists /\ sessions'[s].status # sessions[s].status)
             => /\ <<sessions[s].status, sessions'[s].status>> \in StatusMoves
                /\ (sessions[s].status = "initiated" /\ sessions'[s].status = "ready")
                   => \E p \in Procs : FinalizeStep(p) /\ loc[p].urlToken = s
       /\ \A p \in Procs :
             (\/ pc[p] = "verifyTotp_issue" /\ pc'[p] = "done"
              \/ pc[p] = "getKey_enc" /\ pc'[p] = "getKey_update")
             => sessions[loc[p].urlToken].status # "initiated"]_vars

\* C37: the wrapped key of a session is stored at most once.  A storeKey
\* for a session that already has its cloudFileId is rejected; a cached
\* key is never replaced by another, a recorded cloudFileId never
\* changes, and the time left to a cache entry never grows.
C37_StoreKeyOnce ==
    [][/\ \A p \in Procs :
             (/\ pc[p] = "idle" /\ loc'[p].op = "storeKey"
              /\ sessions[loc'[p].urlToken].cloudFileId # Null)
             => pc'[p] = "done" /\ loc'[p].result # "ok"
       /\ \A s \in SessionIds :
             /\ (encKey[s] # Null /\ encKey'[s] # Null) => encKey'[s] = encKey[s]
             /\ sessions[s].cloudFileId # Null =>
                    sessions'[s].cloudFileId = sessions[s].cloudFileId
             /\ keyTtl[s] > 0 => keyTtl'[s] <= keyTtl[s]]_vars

\* C38: every counter in the cache expires.  A lock counter or a rate
\* counter that holds a value has its TTL, or the request that created it
\* is about to set it: no counter is left with a value and no TTL, also
\* when requests are cut short between two commands.
C38_CountersExpire ==
    /\ \A s \in SessionIds :
          (lockCount[s] > 0 /\ ~lockHasTtl[s])
          => \E p \in Procs : pc[p] = "verifyTotp_expire" /\ loc[p].urlToken = s
    /\ \A key \in RateKeys :
          (rateCount[key] > 0 /\ ~rateHasTtl[key])
          => \E p \in Procs : pc[p] \in {"rate_expire", "login_expire"} /\ loc[p].rkey = key

====
